---- MODULE Spec2Model ----
(***************************************************************************)
(* TrustBridge backend: the user-management API (app/api/users.py), the    *)
(* token dependency (app/core/dependencies.py, app/core/security.py), the  *)
(* USDC investment write path (investments/usdc_transactions.py) and the   *)
(* credibility service (app/services/credibility_service.py), over the     *)
(* relational tables declared in app/db/models.                            *)
(*                                                                         *)
(* Python str values are sequences of one-character strings, so that       *)
(* strip(), startswith(), split() and the base58 check are computed.       *)
(* Python None is the one-element sequence <<"None">>; its element is not  *)
(* a character, so no str value equals it.                                 *)
(***************************************************************************)
EXTENDS Integers, Sequences, FiniteSets, TLC

\* ------------------------------------------------------------------ bounds
MaxUsers == 2          \* rows the users table holds at once
MaxUserId == 3         \* largest primary key the users table hands out
MaxTokens == 1         \* access tokens the clients keep
MaxSeedRuns == 2       \* runs of the seed script that add jobs
MaxClock == 40         \* the clock stops here (minutes)
TickMinutes == 40      \* one clock step (minutes)

\* ------------------------------------------------------- program constants
ACCESS_TOKEN_EXPIRE_MINUTES == 30

\* ------------------------------------------------------------ str helpers
None == <<"None">>

\* A test that takes None for the only empty value.
Truthy_not_none(s) == s # None

\* Python truth value of an Optional[str]: None and "" are false.
Truthy(s) == s # None /\ s # <<>>

IsSpace(c) == c \in {" ", "\t", "\n"}

RECURSIVE lstrip(_)
lstrip(s) == IF s # <<>> /\ IsSpace(Head(s)) THEN lstrip(Tail(s)) ELSE s

RECURSIVE rstrip(_)
rstrip(s) ==
    IF s # <<>> /\ IsSpace(s[Len(s)]) THEN rstrip(SubSeq(s, 1, Len(s) - 1)) ELSE s

strip(s) == rstrip(lstrip(s))

startswith(s, prefix) ==
    /\ s # None
    /\ Len(s) >= Len(prefix)
    /\ SubSeq(s, 1, Len(prefix)) = prefix

\* email.split('@')[0]
RECURSIVE split_at_0(_)
split_at_0(s) ==
    IF s = <<>> \/ Head(s) = "@" THEN <<>> ELSE <<Head(s)>> \o split_at_0(Tail(s))

Max(S) == CHOOSE m \in S : \A x \in S : x <= m

UpperChars == <<"A","B","C","D","E","F","G","H","I","J","K","L","M",
                "N","O","P","Q","R","S","T","U","V","W","X","Y","Z">>
LowerChars == <<"a","b","c","d","e","f","g","h","i","j","k","l","m",
                "n","o","p","q","r","s","t","u","v","w","x","y","z">>

LowerOf == [c \in {UpperChars[i] : i \in 1..26} |->
               LowerChars[CHOOSE i \in 1..26 : UpperChars[i] = c]]

lower_char(c) == IF c \in DOMAIN LowerOf THEN LowerOf[c] ELSE c

\* The element of a one-element set; {e(x) : x \in {v}} names the value v
\* once for the expression e.
The(S) == CHOOSE x \in S : TRUE

\* str.lower()
lower(str) == The({[i \in 1..Len(s) |-> lower_char(s[i])] : s \in {str}})

\* kw in text
contains(text, kw) ==
    The({\E i \in 0..(Len(t) - Len(k)) : SubSeq(t, i + 1, i + Len(k)) = k :
            t \in {text}, k \in {kw}})

\* str(i) for one digit
DigitChar(i) == <<"0","1","2","3","4","5","6","7","8","9">>[i + 1]

Pending == <<"p","e","n","d","i","n","g">>

\* ---------------------------------------------------- app/utils/helpers.py
valid_chars ==
    {"1","2","3","4","5","6","7","8","9",
     "A","B","C","D","E","F","G","H","J","K","L","M","N","P","Q","R","S","T",
     "U","V","W","X","Y","Z",
     "a","b","c","d","e","f","g","h","i","j","k","m","n","o","p","q","r","s",
     "t","u","v","w","x","y","z"}

\* A validation of the length alone.
validate_solana_address_any_chars(address) ==
    Truthy(address) /\ Len(address) >= 32 /\ Len(address) <= 44

validate_solana_address(address) ==
    IF ~Truthy(address) \/ Len(address) < 32 \/ Len(address) > 44
    THEN FALSE
    ELSE \A i \in 1..Len(address) : address[i] \in valid_chars

\* --------------------------------------------------- app/core/security.py
\* A bcrypt hash string "$2b$<salt><digest>": the digest is a function of the
\* password and the salt, injective in the password.
bcrypt_hashpw(password, salt) == <<"$2b$", salt>> \o password

IsBcryptHash(hashed) == Len(hashed) >= 2 /\ hashed[1] = "$2b$"

\* bcrypt.checkpw raises ValueError("Invalid salt") on a string that is not a
\* bcrypt hash.
bcrypt_checkpw(plain_password, hashed_password) ==
    IF IsBcryptHash(hashed_password)
    THEN IF bcrypt_hashpw(plain_password, hashed_password[2]) = hashed_password
         THEN "True" ELSE "False"
    ELSE "ValueError"

\* CryptContext(schemes=["bcrypt"]).verify raises UnknownHashError (a
\* ValueError) on a string no scheme identifies.
pwd_context_verify(plain_password, hashed_password) ==
    IF IsBcryptHash(hashed_password)
    THEN IF bcrypt_hashpw(plain_password, hashed_password[2]) = hashed_password
         THEN "True" ELSE "False"
    ELSE "UnknownHashError"

verify_password_plaintext(plain_password, hashed_password) ==
    IF IsBcryptHash(hashed_password)
    THEN bcrypt_checkpw(plain_password, hashed_password)
    ELSE IF plain_password = hashed_password THEN "True" ELSE "False"

\* "True", "False", or the name of the exception that leaves the function.
verify_password(plain_password, hashed_password) ==
    LET r == bcrypt_checkpw(plain_password, hashed_password)
    IN  IF r = "ValueError"
        THEN pwd_context_verify(plain_password, hashed_password)
        ELSE r

get_password_hash(password, salt) == bcrypt_hashpw(password, salt)

\* The signed token: its claims, and whether its signature verifies under
\* settings.SECRET_KEY.
create_access_token(data, expires_delta, t) ==
    [sub |-> data.sub, email |-> data.email, role |-> data.role,
     exp |-> t + expires_delta, signed |-> TRUE]

\* jwt.decode raises JWTError on a bad signature and on exp < now.
NoPayload == [none |-> TRUE]

decode_access_token(token, t) ==
    IF token.signed /\ token.exp >= t THEN token ELSE NoPayload

\* ------------------------------------------------------------------- state
VARIABLES
    dialect,            \* app/db/session.py: "sqlite" or "postgresql"
    seq,                \* postgresql: last value of each table's id sequence
    users,              \* table users
    startups,           \* table startups
    jobs,               \* table jobs
    cvs,                \* table cvs
    job_applications,   \* table job_applications
    job_matches,        \* table job_matches
    investments,        \* table investments
    now,                \* datetime.utcnow(), minutes
    tokens,             \* access tokens handed to clients
    resp,               \* the last HTTP response, with the request it answers
    req,                \* the send_usdc_investment requests in progress
    bridge              \* what the blockchain bridge scripts have recorded

tables == <<users, startups, jobs, cvs, job_applications, job_matches, investments>>
vars == <<dialect, seq, users, startups, jobs, cvs, job_applications, job_matches,
          investments, now, tokens, resp, req, bridge>>

DB == [users |-> users, startups |-> startups, jobs |-> jobs, cvs |-> cvs,
       job_applications |-> job_applications, job_matches |-> job_matches,
       investments |-> investments]

\* Integer primary key: SQLite's rowid is one more than the largest id in the
\* table; PostgreSQL draws from the table's sequence.
next_id(rows, s) ==
    IF dialect = "sqlite" THEN Max({r.id : r \in rows} \cup {0}) + 1 ELSE s + 1

\* db.query(User).filter(...).first()
NoRow == [none |-> TRUE]

first(rows) == IF rows = {} THEN NoRow
               ELSE CHOOSE r \in rows : \A q \in rows : r.id <= q.id

\* users.email and users.wallet_address are unique; NULLs do not collide.
unique_ok(rows) ==
    \A u, v \in rows :
        u.id # v.id =>
            /\ u.email # v.email
            /\ u.wallet_address # None => u.wallet_address # v.wallet_address

\* ------------------------------------------------------ app/api/users.py
\* pydantic's EmailStr, the type of the email field of UserRegister, UserLogin
\* and PrivyUserSync: the validated value keeps the local part and carries
\* the domain in lower case.
EmailStr(value) ==
    [i \in 1..Len(value) |->
        IF \E j \in 1..(i - 1) : value[j] = "@" THEN lower_char(value[i]) ELSE value[i]]

\* A register_user that skips the "Email already registered" check.
register_user_nocheck(user_data, salt) ==
    LET user == [id |-> next_id(users, seq.users),
                 full_name |-> user_data.full_name,
                 email |-> user_data.email,
                 hashed_password |-> get_password_hash(user_data.password, salt),
                 role |-> user_data.role,
                 wallet_address |-> None,
                 university |-> None,
                 company_name |-> None,
                 verified_on_chain |-> Pending]
    IN  IF ~unique_ok(users \cup {user})
        THEN [status |-> 500, users |-> users, user |-> NoRow, insert |-> TRUE]
        ELSE [status |-> 201, users |-> users \cup {user}, user |-> user, insert |-> TRUE]

register_user(user_data, salt) ==
    LET existing_user == first({u \in users : u.email = user_data.email})
        wallet_address ==
            IF Truthy(user_data.wallet_address) /\ Truthy(strip(user_data.wallet_address))
            THEN strip(user_data.wallet_address) ELSE None
        user == [id |-> next_id(users, seq.users),
                 full_name |-> user_data.full_name,
                 email |-> user_data.email,
                 hashed_password |-> get_password_hash(user_data.password, salt),
                 role |-> user_data.role,
                 wallet_address |-> wallet_address,
                 university |-> IF user_data.role = "student"
                                THEN user_data.university ELSE None,
                 company_name |-> IF user_data.role = "founder"
                                  THEN user_data.company_name ELSE None,
                 verified_on_chain |-> Pending]
    IN  IF existing_user # NoRow
        THEN [status |-> 400, users |-> users, user |-> NoRow, insert |-> FALSE]
        ELSE IF user_data.role = "student" /\ ~Truthy(user_data.university)
        THEN [status |-> 400, users |-> users, user |-> NoRow, insert |-> FALSE]
        ELSE IF user_data.role = "founder" /\ ~Truthy(user_data.company_name)
        THEN [status |-> 400, users |-> users, user |-> NoRow, insert |-> FALSE]
        ELSE IF ~unique_ok(users \cup {user})
        THEN [status |-> 500, users |-> users, user |-> NoRow, insert |-> TRUE]
        ELSE [status |-> 201, users |-> users \cup {user}, user |-> user, insert |-> TRUE]

login_user(credentials) ==
    LET user == first({u \in users : u.email = credentials.email})
        v == IF user = NoRow THEN "False"
             ELSE verify_password(credentials.password, user.hashed_password)
    IN  IF user = NoRow \/ v = "False"
        THEN [status |-> 401, token |-> NoRow, user |-> NoRow]
        ELSE IF v = "True"
        THEN [status |-> 200,
              token |-> create_access_token(
                            [sub |-> user.id, email |-> user.email, role |-> user.role],
                            ACCESS_TOKEN_EXPIRE_MINUTES, now),
              user |-> user]
        ELSE [status |-> 500, token |-> NoRow, user |-> NoRow]

sync_privy_update(user, privy_data) ==
    LET u1 == IF Truthy(privy_data.full_name)
              THEN [user EXCEPT !.full_name = privy_data.full_name] ELSE user
        wallet_addr == IF Truthy(privy_data.wallet_address)
                       THEN strip(privy_data.wallet_address) ELSE None
        u2 == IF Truthy(wallet_addr) /\ validate_solana_address(wallet_addr)
              THEN [u1 EXCEPT !.wallet_address = wallet_addr] ELSE u1
        u3 == IF privy_data.role # "None"
              THEN [u2 EXCEPT !.role = privy_data.role] ELSE u2
        u4 == IF Truthy(privy_data.university) /\ u3.role = "student"
              THEN [u3 EXCEPT !.university = privy_data.university] ELSE u3
    IN  IF Truthy(privy_data.company_name) /\ u4.role = "founder"
        THEN [u4 EXCEPT !.company_name = privy_data.company_name] ELSE u4

sync_privy_user(privy_data) ==
    LET user == first({u \in users : u.email = privy_data.email})
        role == IF privy_data.role # "None" THEN privy_data.role ELSE "investor"
        wallet_addr == IF Truthy(privy_data.wallet_address)
                       THEN strip(privy_data.wallet_address) ELSE None
        wallet_address == IF Truthy(wallet_addr) /\ validate_solana_address(wallet_addr)
                          THEN wallet_addr ELSE None
        created == [id |-> next_id(users, seq.users),
                    full_name |-> IF Truthy(privy_data.full_name)
                                  THEN privy_data.full_name
                                  ELSE split_at_0(privy_data.email),
                    email |-> privy_data.email,
                    hashed_password |-> <<"p","r","i","v","y","_","a","u","t","h","e",
                                          "n","t","i","c","a","t","e","d">>,
                    role |-> role,
                    wallet_address |-> wallet_address,
                    university |-> IF role = "student" THEN privy_data.university ELSE None,
                    company_name |-> IF role = "founder"
                                     THEN privy_data.company_name ELSE None,
                    verified_on_chain |-> Pending]
        updated == sync_privy_update(user, privy_data)
        tok(u) == create_access_token([sub |-> u.id, email |-> u.email, role |-> u.role],
                                      ACCESS_TOKEN_EXPIRE_MINUTES, now)
    IN  IF user # NoRow
        THEN IF ~unique_ok((users \ {user}) \cup {updated})
             THEN [status |-> 500, users |-> users, user |-> NoRow, token |-> NoRow,
                   insert |-> FALSE]
             ELSE [status |-> 200, users |-> (users \ {user}) \cup {updated},
                   user |-> updated, token |-> tok(updated), insert |-> FALSE]
        ELSE IF role = "student" /\ ~Truthy(privy_data.university)
        THEN [status |-> 400, users |-> users, user |-> NoRow, token |-> NoRow,
              insert |-> FALSE]
        ELSE IF role = "founder" /\ ~Truthy(privy_data.company_name)
        THEN [status |-> 400, users |-> users, user |-> NoRow, token |-> NoRow,
              insert |-> FALSE]
        ELSE IF ~unique_ok(users \cup {created})
        THEN [status |-> 500, users |-> users, user |-> NoRow, token |-> NoRow,
              insert |-> TRUE]
        ELSE [status |-> 200, users |-> users \cup {created}, user |-> created,
              token |-> tok(created), insert |-> TRUE]

update_user(user_id, user_data) ==
    LET user == first({u \in users : u.id = user_id})
        wallet_addr == IF Truthy(user_data.wallet_address)
                       THEN strip(user_data.wallet_address) ELSE None
        invalid == Truthy(wallet_addr) /\ ~validate_solana_address(wallet_addr)
        u1 == IF Truthy(user_data.wallet_address)
              THEN [user EXCEPT !.wallet_address =
                        IF Truthy(wallet_addr) THEN wallet_addr ELSE None]
              ELSE user
        u2 == IF Truthy(user_data.full_name)
              THEN [u1 EXCEPT !.full_name = user_data.full_name] ELSE u1
        u3 == IF Truthy(user_data.university) /\ u2.role = "student"
              THEN [u2 EXCEPT !.university = user_data.university] ELSE u2
        u4 == IF Truthy(user_data.company_name) /\ u3.role = "founder"
              THEN [u3 EXCEPT !.company_name = user_data.company_name] ELSE u3
    IN  IF user = NoRow THEN [status |-> 404, users |-> users, user |-> NoRow]
        ELSE IF invalid THEN [status |-> 400, users |-> users, user |-> NoRow]
        ELSE IF ~unique_ok((users \ {user}) \cup {u4})
        THEN [status |-> 500, users |-> users, user |-> NoRow]
        ELSE [status |-> 200, users |-> (users \ {user}) \cup {u4}, user |-> u4]

\* The dict register_user, get_user and update_user answer with.
user_response(user) ==
    [id |-> user.id, full_name |-> user.full_name, email |-> user.email,
     role |-> user.role, wallet_address |-> user.wallet_address,
     university |-> IF Truthy(user.university) THEN user.university ELSE <<>>,
     company_name |-> IF Truthy(user.company_name) THEN user.company_name ELSE <<>>,
     verified_on_chain |-> IF Truthy(user.verified_on_chain)
                           THEN user.verified_on_chain ELSE Pending]

\* A lookup that answers with the oldest user.
get_user_oldest(user_id) ==
    LET user == first({u \in users : \A v \in users : u.id <= v.id})
    IN  IF user = NoRow THEN [status |-> 404, body |-> NoRow]
        ELSE [status |-> 200, body |-> user_response(user)]

get_user(user_id) ==
    LET user == first({u \in users : u.id = user_id})
    IN  IF user = NoRow THEN [status |-> 404, body |-> NoRow]
        ELSE [status |-> 200, body |-> user_response(user)]

\* ----------------------------------------------- app/core/dependencies.py
get_current_user(token) ==
    LET payload == decode_access_token(token, now)
        user == IF payload = NoPayload THEN NoRow
                ELSE first({u \in users : u.id = payload.sub})
    IN  IF payload = NoPayload THEN [status |-> 401, user |-> NoRow]
        ELSE IF user = NoRow THEN [status |-> 401, user |-> NoRow]
        ELSE [status |-> 200, user |-> user]

\* ---------------------------------------- app/api/users.py: delete_user
NULL == 0

ids_of(t, rows) == {<<t, r.id>> : r \in rows}

\* 1. Delete CVs
delete_cvs(user_id) == ids_of("cvs", {c \in cvs : c.user_id = user_id})

\* 2. Delete job applications
delete_job_applications(user_id) ==
    ids_of("job_applications", {a \in job_applications : a.user_id = user_id})

\* 3. Delete job matches
delete_job_matches(user_id) ==
    ids_of("job_matches", {m \in job_matches : m.user_id = user_id})

\* 4. Delete investments
delete_investments(user_id) ==
    ids_of("investments", {i \in investments : i.investor_id = user_id})

\* 5. Startups the user founded, their jobs, those jobs' matches and applications
delete_startups(user_id) ==
    LET founded == {s \in startups : s.founder_id = user_id}
        their_jobs == {j \in jobs : \E s \in founded : j.startup_id = s.id}
    IN  ids_of("job_matches", {m \in job_matches : \E j \in their_jobs : m.job_id = j.id})
        \cup ids_of("job_applications",
                    {a \in job_applications : \E j \in their_jobs : a.job_id = j.id})
        \cup ids_of("jobs", their_jobs)
        \cup ids_of("startups", founded)

\* The rows the session has marked deleted when step k (1..5) has run.
RECURSIVE deleted_after(_, _)
deleted_after(k, user_id) ==
    IF k = 0 THEN {}
    ELSE deleted_after(k - 1, user_id) \cup
         (CASE k = 1 -> delete_cvs(user_id)
            [] k = 2 -> delete_job_applications(user_id)
            [] k = 3 -> delete_job_matches(user_id)
            [] k = 4 -> delete_investments(user_id)
            [] k = 5 -> delete_startups(user_id))

\* db.commit() of a session holding deletes.  Rows marked deleted are removed.
\* For a deleted parent the ORM sets the foreign key of every child that a
\* relationship() without delete cascade still reaches to NULL; where the
\* column is nullable=False the UPDATE raises IntegrityError and nothing is
\* written.
remaining(db, deleted, t) == {r \in db[t] : <<t, r.id>> \notin deleted}

not_null_violation(db, deleted) ==
    \/ \E s \in remaining(db, deleted, "startups") : <<"users", s.founder_id>> \in deleted
    \/ \E i \in remaining(db, deleted, "investments") :
          \/ <<"users", i.investor_id>> \in deleted
          \/ <<"startups", i.startup_id>> \in deleted
    \/ \E c \in remaining(db, deleted, "cvs") : <<"users", c.user_id>> \in deleted
    \/ \E m \in remaining(db, deleted, "job_matches") :
          \/ <<"users", m.user_id>> \in deleted
          \/ <<"jobs", m.job_id>> \in deleted
    \/ \E a \in remaining(db, deleted, "job_applications") :
          \/ <<"users", a.user_id>> \in deleted
          \/ <<"jobs", a.job_id>> \in deleted

flushed(db, deleted) ==
    [users |-> remaining(db, deleted, "users"),
     startups |-> remaining(db, deleted, "startups"),
     jobs |-> {IF <<"startups", j.startup_id>> \in deleted
               THEN [j EXCEPT !.startup_id = NULL] ELSE j :
               j \in remaining(db, deleted, "jobs")},
     cvs |-> remaining(db, deleted, "cvs"),
     job_applications |-> {IF <<"cvs", a.cv_id>> \in deleted
                           THEN [a EXCEPT !.cv_id = NULL] ELSE a :
                           a \in remaining(db, deleted, "job_applications")},
     job_matches |-> remaining(db, deleted, "job_matches"),
     investments |-> remaining(db, deleted, "investments")]

\* A commit on a schema whose foreign keys may all be left as they are.
commit_deletes_unchecked(db, deleted) == [ok |-> TRUE, db |-> flushed(db, deleted)]

commit_deletes(db, deleted) ==
    IF not_null_violation(db, deleted)
    THEN [ok |-> FALSE, db |-> db]
    ELSE [ok |-> TRUE, db |-> flushed(db, deleted)]

SetTables(db) ==
    /\ users' = db.users
    /\ startups' = db.startups
    /\ jobs' = db.jobs
    /\ cvs' = db.cvs
    /\ job_applications' = db.job_applications
    /\ job_matches' = db.job_matches
    /\ investments' = db.investments

\* The except branch that writes what the session holds instead of
\* discarding it.
rollback_flushes(db, deleted) == flushed(db, deleted)

\* except Exception: db.rollback()
rollback(db, deleted) == db

NoCounts == [cvs |-> 0, job_applications |-> 0, job_matches |-> 0,
             investments |-> 0, startups |-> 0]

\* fail_at = 0: no query raises.  fail_at = k in 1..6: step k raises (the
\* connection drops, a lock times out) and control goes to the except branch.
delete_user(user_id, fail_at) ==
    LET user == first({u \in users : u.id = user_id})
        deleted == deleted_after(5, user_id) \cup {<<"users", user_id>>}
        c == commit_deletes(DB, deleted)
    IN  IF user = NoRow THEN [status |-> 404, db |-> DB, deleted |-> NoCounts]
        ELSE IF fail_at > 0
        THEN [status |-> 500, deleted |-> NoCounts,
              db |-> rollback(DB, deleted_after(fail_at - 1, user_id))]
        ELSE IF ~c.ok
        THEN [status |-> 500, db |-> rollback(DB, deleted), deleted |-> NoCounts]
        ELSE [status |-> 200, db |-> c.db,
              deleted |-> [cvs |-> Cardinality(delete_cvs(user_id)),
                           job_applications |->
                               Cardinality(delete_job_applications(user_id)),
                           job_matches |-> Cardinality(delete_job_matches(user_id)),
                           investments |-> Cardinality(delete_investments(user_id)),
                           startups |->
                               Cardinality({s \in startups : s.founder_id = user_id})]]

DeleteUser(user_id, fail_at) ==
    LET r == delete_user(user_id, fail_at)
    IN  /\ SetTables(r.db)
        /\ resp' = [op |-> "delete_user", status |-> r.status, request |-> user_id,
                    deleted |-> r.deleted]
        /\ UNCHANGED <<dialect, seq, now, tokens, req, bridge>>

\* ------------------------------------------------- requests: users router
\* postgresql consumes a sequence value for every INSERT it attempts.
SeqAfterInsert(r) ==
    IF dialect = "postgresql" /\ r.insert
    THEN [seq EXCEPT !.users = @ + 1] ELSE seq

\* The client keeps the token it is handed, or drops it.
KeepToken(tok, keep) ==
    /\ keep => Cardinality(tokens \cup {tok}) <= MaxTokens
    /\ tokens' = IF keep THEN tokens \cup {tok} ELSE tokens

Register(user_data, salt) ==
    LET r == register_user([user_data EXCEPT !.email = EmailStr(@)], salt)
    IN  /\ r.insert => /\ Cardinality(users) < MaxUsers
                       /\ next_id(users, seq.users) <= MaxUserId
        /\ users' = r.users
        /\ seq' = SeqAfterInsert(r)
        /\ resp' = [op |-> "register_user", status |-> r.status,
                    request |-> user_data, user |-> r.user]
        /\ UNCHANGED <<dialect, startups, jobs, cvs, job_applications, job_matches,
                       investments, now, tokens, req, bridge>>

Login(credentials, keep) ==
    LET r == login_user([credentials EXCEPT !.email = EmailStr(@)])
    IN  /\ resp' = [op |-> "login_user", status |-> r.status,
                    request |-> credentials, token |-> r.token]
        /\ IF r.status = 200 THEN KeepToken(r.token, keep) ELSE tokens' = tokens
        /\ UNCHANGED <<dialect, seq, tables, now, req, bridge>>

PrivySync(privy_data, keep) ==
    LET r == sync_privy_user([privy_data EXCEPT !.email = EmailStr(@)])
    IN  /\ r.insert => /\ Cardinality(users) < MaxUsers
                       /\ next_id(users, seq.users) <= MaxUserId
        /\ users' = r.users
        /\ seq' = SeqAfterInsert(r)
        /\ resp' = [op |-> "sync_privy_user", status |-> r.status,
                    request |-> privy_data, user |-> r.user]
        /\ IF r.status = 200 THEN KeepToken(r.token, keep) ELSE tokens' = tokens
        /\ UNCHANGED <<dialect, startups, jobs, cvs, job_applications, job_matches,
                       investments, now, req, bridge>>

GetUser(user_id) ==
    LET r == get_user(user_id)
    IN  /\ resp' = [op |-> "get_user", status |-> r.status, request |-> user_id,
                    body |-> r.body]
        /\ UNCHANGED <<dialect, seq, tables, now, tokens, req, bridge>>

UpdateUser(user_id, user_data) ==
    LET r == update_user(user_id, user_data)
    IN  /\ users' = r.users
        /\ resp' = [op |-> "update_user", status |-> r.status,
                    request |-> user_data, user |-> r.user]
        /\ UNCHANGED <<dialect, seq, startups, jobs, cvs, job_applications,
                       job_matches, investments, now, tokens, req, bridge>>

\* A request to a route that depends on get_current_user.
GetCurrentUser(token) ==
    LET r == get_current_user(token)
    IN  /\ resp' = [op |-> "get_current_user", status |-> r.status,
                    request |-> token, user |-> r.user]
        /\ UNCHANGED <<dialect, seq, tables, now, tokens, req, bridge>>

Tick ==
    /\ now < MaxClock
    /\ now' = now + TickMinutes
    /\ UNCHANGED <<dialect, seq, tables, tokens, resp, req, bridge>>

\* ------------------------------ app/services/credibility_service.py
Min(a, b) == IF a <= b THEN a ELSE b

RECURSIVE sum_amounts(_)
sum_amounts(rows) ==
    IF rows = {} THEN 0
    ELSE LET r == CHOOSE x \in rows : TRUE
         IN  r.amount + sum_amounts(rows \ {r})

Verified == <<"v","e","r","i","f","i","e","d">>

\* round(score, 2).  Scores are carried in thousandths of a point and stored
\* in hundredths.  A tie goes to the even neighbour; with whole-USDC amounts
\* a tie needs a total ending in 5, which the amounts used never produce.
round2(milli) ==
    LET q == milli \div 10
        r == milli % 10
    IN  IF r < 5 THEN q
        ELSE IF r > 5 THEN q + 1
        ELSE IF q % 2 = 0 THEN q ELSE q + 1

\* An investment factor without the 30-point cap.
investment_score_uncapped(total_investment) == total_investment * 3

\* min(30, (total_investment / 10000) * 30), in thousandths of a point
investment_score(total_investment) == Min(30000, total_investment * 3)

\* The score of lines 24-71, in hundredths of a point, from the rows as they
\* are when the queries run.
calculate_startup_credibility(startup_pk) ==
    LET startup == first({s \in startups : s.id = startup_pk})
        employee_score == Min(40, startup.employees_verified * 8)
        founder == first({u \in users : u.id = startup.founder_id})
        founder_score == IF founder # NoRow /\ founder.verified_on_chain = Verified
                         THEN 20 ELSE 0
        total_investment ==
            sum_amounts({i \in investments : i.startup_id = startup_pk})
        on_chain_score == IF Truthy(startup.transaction_signature) THEN 10 ELSE 0
    IN  round2(1000 * (employee_score + founder_score + on_chain_score)
               + investment_score(total_investment))

\* startup.credibility_score = round(score, 2); db.commit()
write_credibility(startup_pk, score) ==
    {IF s.id = startup_pk THEN [s EXCEPT !.credibility_score = score] ELSE s :
        s \in startups}

\* --------------------------------- investments/usdc_transactions.py
mock_ == <<"m","o","c","k","_">>

\* A registration test that looks for an absent signature only.
needs_registration_absent_only(startup) == ~Truthy(startup.transaction_signature)

\* line 69
needs_registration(startup) ==
    \/ ~Truthy(startup.transaction_signature)
    \/ startswith(startup.transaction_signature, mock_)

\* A validation that leaves out the founder's wallet.
usdc_validate_nofounder(investor_id, startup_id) ==
    LET investor == first({u \in users : u.id = investor_id})
        startup == first({s \in startups : s.startup_id = startup_id})
    IN  IF investor = NoRow THEN [ok |-> FALSE, detail |-> "Investor not found"]
        ELSE IF ~Truthy(investor.wallet_address)
        THEN [ok |-> FALSE, detail |-> "Investor must have a wallet address"]
        ELSE IF startup = NoRow THEN [ok |-> FALSE, detail |-> "Startup not found"]
        ELSE IF ~validate_solana_address(strip(investor.wallet_address))
        THEN [ok |-> FALSE, detail |-> "Invalid Solana wallet address format"]
        ELSE [ok |-> TRUE, wallet_address |-> strip(investor.wallet_address),
              startup |-> startup, needs_registration |-> needs_registration(startup)]

\* lines 48-74: every check made before the first bridge call
usdc_validate(investor_id, startup_id) ==
    LET investor == first({u \in users : u.id = investor_id})
        startup == first({s \in startups : s.startup_id = startup_id})
        founder == first({u \in users : u.id = startup.founder_id})
    IN  IF investor = NoRow THEN [ok |-> FALSE, detail |-> "Investor not found"]
        ELSE IF ~Truthy(investor.wallet_address)
        THEN [ok |-> FALSE, detail |-> "Investor must have a wallet address"]
        ELSE IF startup = NoRow THEN [ok |-> FALSE, detail |-> "Startup not found"]
        ELSE IF ~validate_solana_address(strip(investor.wallet_address))
        THEN [ok |-> FALSE, detail |-> "Invalid Solana wallet address format"]
        ELSE IF needs_registration(startup)
                /\ (founder = NoRow \/ ~Truthy(founder.wallet_address))
        THEN [ok |-> FALSE, detail |-> "Startup founder must have a wallet address"]
        ELSE [ok |-> TRUE, wallet_address |-> strip(investor.wallet_address),
              startup |-> startup, needs_registration |-> needs_registration(startup)]

NoResult == [none |-> TRUE]

ReqIdle ==
    [pc |-> "idle", investor_id |-> 0, startup_id |-> None, amount_usdc |-> 0,
     wallet_address |-> None, startup_pk |-> 0, loaded_signature |-> None,
     onchain_id |-> None, reg_result |-> NoResult, inv_result |-> NoResult,
     loaded_score |-> 0, score |-> 0]

Requests == {1, 2}

\* The body send_usdc_investment_endpoint answers with.
UsdcResponse(status, q, detail) ==
    [op |-> "send_usdc_investment", status |-> status,
     request |-> [investor_id |-> q.investor_id, startup_id |-> q.startup_id,
                  amount_usdc |-> q.amount_usdc],
     transaction_signature |->
         IF status = 200 THEN q.inv_result.transaction_signature ELSE None,
     detail |-> detail]

\* lines 46-74, and routes.py 1088-1092 for a ValueError
UsdcBegin(r, investor_id, startup_id, amount_usdc) ==
    LET v == usdc_validate(investor_id, startup_id)
        q == [ReqIdle EXCEPT !.investor_id = investor_id, !.startup_id = startup_id,
                             !.amount_usdc = amount_usdc]
    IN  /\ req[r].pc = "idle"
        /\ IF ~v.ok
           THEN /\ resp' = UsdcResponse(400, q, v.detail)
                /\ req' = req
           ELSE /\ req' = [req EXCEPT ![r] =
                              [q EXCEPT !.pc = IF v.needs_registration
                                               THEN "register" ELSE "invest",
                                        !.wallet_address = v.wallet_address,
                                        !.startup_pk = v.startup.id,
                                        !.loaded_signature =
                                            v.startup.transaction_signature,
                                        !.onchain_id = v.startup.startup_id]]
                /\ resp' = resp
        /\ UNCHANGED <<dialect, seq, tables, now, tokens, bridge>>

\* A registration step that reads the row again and leaves the bridge alone
\* when the row has been registered in the meantime.
UsdcRegisterBridgeRecheck(r, outcome) ==
    LET n == bridge.register_calls + 1
        result == [startup_id |-> IF outcome = "ok" THEN <<"C", DigitChar(n)>> ELSE None,
                   transaction_signature |-> <<"R", DigitChar(n)>>]
        row == first({s \in startups : s.id = req[r].startup_pk})
    IN  /\ req[r].pc = "register"
        /\ IF ~needs_registration(row)
           THEN /\ bridge' = bridge
                /\ req' = [req EXCEPT ![r].pc = "invest", ![r].onchain_id = row.startup_id]
                /\ resp' = resp
           ELSE IF outcome = "fail"
           THEN /\ bridge' = [bridge EXCEPT !.register_calls = n]
                /\ resp' = UsdcResponse(500, req[r], "Blockchain error")
                /\ req' = [req EXCEPT ![r] = ReqIdle]
           ELSE /\ bridge' = [bridge EXCEPT !.register_calls = n,
                                            !.registered = @ \cup {result}]
                /\ req' = [req EXCEPT ![r].pc = "register_commit",
                                      ![r].reg_result = result]
                /\ resp' = resp
        /\ UNCHANGED <<dialect, seq, tables, now, tokens>>

\* lines 76-84: StartupClient.register_startup runs registerStartup.js.  The
\* script fails, or prints a result with or without a startupId.
UsdcRegisterBridge(r, outcome) ==
    LET n == bridge.register_calls + 1
        result == [startup_id |-> IF outcome = "ok" THEN <<"C", DigitChar(n)>> ELSE None,
                   transaction_signature |-> <<"R", DigitChar(n)>>]
    IN  /\ req[r].pc = "register"
        /\ IF outcome = "fail"
           THEN /\ bridge' = [bridge EXCEPT !.register_calls = n]
                /\ resp' = UsdcResponse(500, req[r], "Blockchain error")
                /\ req' = [req EXCEPT ![r] = ReqIdle]
           ELSE /\ bridge' = [bridge EXCEPT !.register_calls = n,
                                            !.registered = @ \cup {result}]
                /\ req' = [req EXCEPT ![r].pc = "register_commit",
                                      ![r].reg_result = result]
                /\ resp' = resp
        /\ UNCHANGED <<dialect, seq, tables, now, tokens>>

\* A registration whose result is kept by the session and not committed.
UsdcRegisterUncommitted(r) ==
    /\ req[r].pc = "register_commit"
    /\ req' = [req EXCEPT ![r].pc = "invest",
                          ![r].onchain_id =
                              IF Truthy(req[r].reg_result.startup_id)
                              THEN req[r].reg_result.startup_id ELSE @]
    /\ UNCHANGED <<dialect, seq, tables, now, tokens, resp, bridge>>

\* lines 86-91: store the returned id and signature, commit, refresh
UsdcRegisterCommit(r) ==
    LET res == req[r].reg_result
        updated(s) == [s EXCEPT !.startup_id = IF Truthy(res.startup_id)
                                               THEN res.startup_id ELSE @,
                                !.transaction_signature = res.transaction_signature]
    IN  /\ req[r].pc = "register_commit"
        /\ startups' = {IF s.id = req[r].startup_pk THEN updated(s) ELSE s :
                           s \in startups}
        /\ req' = [req EXCEPT ![r].pc = "invest",
                              ![r].onchain_id =
                                  updated(first({s \in startups :
                                                    s.id = req[r].startup_pk})).startup_id]
        /\ UNCHANGED <<dialect, seq, users, jobs, cvs, job_applications, job_matches,
                       investments, now, tokens, resp, bridge>>

\* lines 93-98: InvestmentClient.invest_in_startup runs investUSDC.js.  The
\* script fails, or prints a result with or without a transactionSignature.
UsdcInvestBridge(r, outcome) ==
    LET n == bridge.invest_calls + 1
        result == [transaction_signature |->
                       IF outcome = "ok" THEN <<"T", DigitChar(n)>> ELSE None]
    IN  /\ req[r].pc = "invest"
        /\ IF outcome = "fail"
           THEN /\ bridge' = [bridge EXCEPT !.invest_calls = n]
                /\ resp' = UsdcResponse(500, req[r], "Blockchain error")
                /\ req' = [req EXCEPT ![r] = ReqIdle]
           ELSE /\ bridge' = [bridge EXCEPT !.invest_calls = n,
                                            !.invested = @ \cup {result}]
                /\ req' = [req EXCEPT ![r].pc = "persist", ![r].inv_result = result]
                /\ resp' = resp
        /\ UNCHANGED <<dialect, seq, tables, now, tokens>>

\* An Investment row keyed to a made-up signature.
investment_row_mock(q, id) ==
    [id |-> id, startup_id |-> q.startup_pk, investor_id |-> q.investor_id,
     amount |-> q.amount_usdc, tx_signature |-> <<"m","o","c","k","_","t","x">>]

\* lines 101-106
investment_row(q, id) ==
    [id |-> id, startup_id |-> q.startup_pk, investor_id |-> q.investor_id,
     amount |-> q.amount_usdc, tx_signature |-> q.inv_result.transaction_signature]

\* lines 100-110: add the Investment row and commit.  tx_signature is
\* nullable=False: a result without signature ends in IntegrityError.
UsdcPersist(r) ==
    LET investment == investment_row(req[r], next_id(investments, seq.investments))
    IN  /\ req[r].pc = "persist"
        /\ seq' = IF dialect = "postgresql"
                  THEN [seq EXCEPT !.investments = @ + 1] ELSE seq
        /\ IF investment.tx_signature = None
           THEN /\ investments' = investments
                /\ resp' = UsdcResponse(500, req[r], "IntegrityError")
                /\ req' = [req EXCEPT ![r] = ReqIdle]
           ELSE /\ investments' = investments \cup {investment}
                /\ req' = [req EXCEPT ![r].pc = "credibility"]
                /\ resp' = resp
        /\ UNCHANGED <<dialect, users, startups, jobs, cvs, job_applications,
                       job_matches, now, tokens, bridge>>

\* lines 112-115 with credibility_service.py 24-68: the queries.  The
\* session loads the startup row here and remembers the score it held.
UsdcCredibilityRead(r) ==
    /\ req[r].pc = "credibility"
    /\ req' = [req EXCEPT ![r].pc = "credibility_commit",
                          ![r].loaded_score =
                              first({s \in startups :
                                        s.id = req[r].startup_pk}).credibility_score,
                          ![r].score = calculate_startup_credibility(req[r].startup_pk)]
    /\ UNCHANGED <<dialect, seq, tables, now, tokens, resp, bridge>>

\* A commit that computes the score again from the rows as they are now.
UsdcCredibilityCommitFresh(r) ==
    /\ req[r].pc = "credibility_commit"
    /\ startups' = write_credibility(req[r].startup_pk,
                                     calculate_startup_credibility(req[r].startup_pk))
    /\ resp' = UsdcResponse(200, req[r], "")
    /\ req' = [req EXCEPT ![r] = ReqIdle]
    /\ UNCHANGED <<dialect, seq, users, jobs, cvs, job_applications, job_matches,
                   investments, now, tokens, bridge>>

\* credibility_service.py 70-72, then lines 117-128: the response.  The
\* commit updates the column only when the score differs from the one the
\* session loaded.
UsdcCredibilityCommit(r) ==
    /\ req[r].pc = "credibility_commit"
    /\ startups' = IF req[r].score = req[r].loaded_score THEN startups
                   ELSE write_credibility(req[r].startup_pk, req[r].score)
    /\ resp' = UsdcResponse(200, req[r], "")
    /\ req' = [req EXCEPT ![r] = ReqIdle]
    /\ UNCHANGED <<dialect, seq, users, jobs, cvs, job_applications, job_matches,
                   investments, now, tokens, bridge>>

\* -------------------------------- investments/startup_verification.py
VerifyStartup(startup_id) ==
    LET startup == first({s \in startups : s.startup_id = startup_id})
    IN  IF startup = NoRow
        THEN /\ resp' = [op |-> "verify_startup", status |-> 404,
                         request |-> startup_id, credibility_score |-> 0]
             /\ startups' = startups
             /\ UNCHANGED <<dialect, seq, users, jobs, cvs, job_applications,
                            job_matches, investments, now, tokens, req, bridge>>
        ELSE LET score == calculate_startup_credibility(startup.id)
             IN  /\ startups' = write_credibility(startup.id, score)
                 /\ resp' = [op |-> "verify_startup", status |-> 200,
                             request |-> startup_id, credibility_score |-> score]
                 /\ UNCHANGED <<dialect, seq, users, jobs, cvs, job_applications,
                                job_matches, investments, now, tokens, req, bridge>>

\* ------------------------------------------------- SQL LIKE 'mock_%'
\* Investment.tx_signature.like("mock_%"): in the pattern "_" stands for any
\* one character and "%" for any run of characters; SQLite compares ASCII
\* letters without regard to case, PostgreSQL with.
like_mock(value) ==
    /\ value # None
    /\ Len(value) >= 5
    /\ \A i \in 1..4 :
          IF dialect = "sqlite"
          THEN lower_char(value[i]) = lower_char(mock_[i])
          ELSE value[i] = mock_[i]

\* ------------------------------ scripts/cleanup_mock_investments.py
cleanup_mock_investments ==
    LET mock_investments == {i \in investments : like_mock(i.tx_signature)}
    IN  [removed |-> Cardinality(mock_investments),
         investments |-> investments \ mock_investments]

CleanupMockInvestments ==
    LET res == cleanup_mock_investments
    IN  /\ investments' = res.investments
        /\ resp' = [op |-> "cleanup_mock_investments", status |-> 0,
                    removed |-> res.removed]
        /\ UNCHANGED <<dialect, seq, users, startups, jobs, cvs, job_applications,
                       job_matches, now, tokens, req, bridge>>

\* -------------------------------- investments/investor_portfolio.py
get_portfolio(investor_id) ==
    LET investor == first({u \in users : u.id = investor_id})
        invs == {i \in investments :
                    i.investor_id = investor_id /\ ~like_mock(i.tx_signature)}
        startup_of(i) == first({s \in startups : s.id = i.startup_id})
        grouped == {i \in invs : startup_of(i) # NoRow}
        keys == {startup_of(i).startup_id : i \in grouped}
        group(k) == {i \in grouped : startup_of(i).startup_id = k}
    IN  IF investor = NoRow
        THEN [status |-> 404]
        ELSE [status |-> 200,
              investor_id |-> investor_id,
              total_invested_usdc |-> sum_amounts(invs),
              total_investments |-> Cardinality(invs),
              startup_count |-> Cardinality(keys),
              startups |-> {[startup_id |-> k,
                             total_invested |-> sum_amounts(group(k)),
                             investment_count |-> Cardinality(group(k))] : k \in keys},
              all_investments |-> {i.id : i \in invs}]

GetPortfolio(investor_id) ==
    /\ resp' = [op |-> "get_portfolio", request |-> investor_id]
                  @@ get_portfolio(investor_id)
    /\ UNCHANGED <<dialect, seq, tables, now, tokens, req, bridge>>

\* investor_portfolio.py 99-134.  The rows come newest first; ids grow with
\* the time of insertion.
explorer_url(tx_signature) ==
    IF Truthy(tx_signature) /\ ~startswith(tx_signature, mock_)
    THEN <<"h","t","t","p","s",":","/","/","e","x","p","l","o","r","e","r",".",
           "s","o","l","a","n","a",".","c","o","m","/","t","x","/">>
         \o tx_signature
         \o <<"?","c","l","u","s","t","e","r","=","d","e","v","n","e","t">>
    ELSE None

get_startup_investments(startup_id) ==
    LET startup == first({s \in startups : s.startup_id = startup_id})
        rows == {i \in investments : i.startup_id = startup.id}
        nth(k) == CHOOSE i \in rows : Cardinality({j \in rows : j.id > i.id}) = k - 1
        investor(inv) == first({u \in users : u.id = inv.investor_id})
        entry(inv) ==
            [id |-> inv.id, investor_id |-> inv.investor_id,
             investor_name |-> IF investor(inv) # NoRow THEN investor(inv).full_name
                               ELSE <<"U","n","k","n","o","w","n">>,
             investor_email |-> IF investor(inv) # NoRow THEN investor(inv).email
                                ELSE None,
             amount |-> inv.amount, tx_signature |-> inv.tx_signature,
             explorer_url |-> explorer_url(inv.tx_signature)]
    IN  IF startup = NoRow
        THEN [status |-> 404, investments |-> <<>>, count |-> 0]
        ELSE [status |-> 200,
              investments |-> [k \in 1..Cardinality(rows) |-> entry(nth(k))],
              count |-> Cardinality(rows)]

\* GET /api/investments/startup/{startup_id}, routes.py 1120-1136
GetStartupInvestments(startup_id) ==
    /\ resp' = [op |-> "get_startup_investments", request |-> startup_id]
                  @@ get_startup_investments(startup_id)
    /\ UNCHANGED <<dialect, seq, tables, now, tokens, req, bridge>>

\* ---------------------------- app/utils/helpers.py: calculate_match_score
\* Sub-scores are carried in parts of One, so that tenths, sixths and thirds
\* are whole numbers; weights and thresholds are in hundredths; the result
\* is in thousandths.
One == 3 * 1000

skills_weight == 40
location_weight == 20
degree_weight == 20
experience_weight == 10
verified_weight == 10
score_cap == 95
score_floor == 25

\* round(x, digits) of the exact quotient n / unit, ties to the even neighbour
round_div(n, unit) ==
    LET q == n \div unit
        r == n % unit
    IN  IF 2 * r < unit THEN q
        ELSE IF 2 * r > unit THEN q + 1
        ELSE IF q % 2 = 0 THEN q ELSE q + 1

\* A score that weighs skills at 0.50 and degree at 0.10.
calculate_match_score_skewed(skills_match, location_match, degree_match, experience_match, verified) ==
    LET score == skills_match * 50 + location_match * location_weight
                 + degree_match * 10 + experience_match * experience_weight
                 + (IF verified THEN One ELSE 0) * verified_weight
        capped == Min(score, score_cap * One)
    IN  IF capped < score_floor * One THEN 0 ELSE round_div(capped, One \div 10)

\* A score without the 0.25 floor.
calculate_match_score_unfloored(skills_match, location_match, degree_match, experience_match, verified) ==
    LET score == skills_match * skills_weight + location_match * location_weight
                 + degree_match * degree_weight + experience_match * experience_weight
                 + (IF verified THEN One ELSE 0) * verified_weight
        capped == Min(score, score_cap * One)
    IN  round_div(capped, One \div 10)

calculate_match_score(skills_match, location_match, degree_match, experience_match, verified) ==
    LET score == skills_match * skills_weight + location_match * location_weight
                 + degree_match * degree_weight + experience_match * experience_weight
                 + (IF verified THEN One ELSE 0) * verified_weight
        capped == Min(score, score_cap * One)
    IN  IF capped < score_floor * One THEN 0 ELSE round_div(capped, One \div 10)

CalculateMatchScore(skills_match, location_match, degree_match, experience_match, verified) ==
    /\ resp' = [op |-> "calculate_match_score",
                request |-> [skills_match |-> skills_match,
                             location_match |-> location_match,
                             degree_match |-> degree_match,
                             experience_match |-> experience_match,
                             verified |-> verified],
                result |-> calculate_match_score(skills_match, location_match,
                                                 degree_match, experience_match,
                                                 verified)]
    /\ UNCHANGED <<dialect, seq, tables, now, tokens, req, bridge>>

\* ----------- app/services/credibility_service.py: _get_credibility_grade
\* A grading whose boundaries belong to the lower grade.
get_credibility_grade_exclusive(score) ==
    IF score > 8000 THEN "A+"
    ELSE IF score > 7000 THEN "A"
    ELSE IF score > 6000 THEN "B"
    ELSE IF score > 5000 THEN "C"
    ELSE IF score > 4000 THEN "D"
    ELSE "F"

\* score in hundredths of a point
get_credibility_grade(score) ==
    IF score >= 8000 THEN "A+"
    ELSE IF score >= 7000 THEN "A"
    ELSE IF score >= 6000 THEN "B"
    ELSE IF score >= 5000 THEN "C"
    ELSE IF score >= 4000 THEN "D"
    ELSE "F"

GetCredibilityGrade(score) ==
    /\ resp' = [op |-> "_get_credibility_grade", request |-> score,
                result |-> get_credibility_grade(score)]
    /\ UNCHANGED <<dialect, seq, tables, now, tokens, req, bridge>>

\* ------------- app/services/matching_service.py: _calculate_skills_match
\* A comparison that keeps the case of both lists.
calculate_skills_match_cased(required_skills, user_skills) ==
    IF Len(required_skills) = 0 THEN [num |-> 1, den |-> 1]
    ELSE IF Len(user_skills) = 0 THEN [num |-> 0, den |-> 1]
    ELSE [num |-> Cardinality({i \in 1..Len(required_skills) :
                      \E j \in 1..Len(user_skills) :
                          user_skills[j] = required_skills[i]}),
          den |-> Len(required_skills)]

\* The result is the fraction num / den.
calculate_skills_match(required_skills, user_skills) ==
    IF Len(required_skills) = 0 THEN [num |-> 1, den |-> 1]
    ELSE IF Len(user_skills) = 0 THEN [num |-> 0, den |-> 1]
    ELSE LET required_lower == [i \in 1..Len(required_skills) |->
                                    lower(required_skills[i])]
             user_lower == [j \in 1..Len(user_skills) |-> lower(user_skills[j])]
             matches == Cardinality({i \in 1..Len(required_lower) :
                            \E j \in 1..Len(user_lower) :
                                user_lower[j] = required_lower[i]})
         IN  [num |-> matches, den |-> Len(required_skills)]

CalculateSkillsMatch(required_skills, user_skills) ==
    /\ resp' = [op |-> "_calculate_skills_match",
                request |-> [required_skills |-> required_skills,
                             user_skills |-> user_skills],
                result |-> calculate_skills_match(required_skills, user_skills)]
    /\ UNCHANGED <<dialect, seq, tables, now, tokens, req, bridge>>

\* -------- app/services/matching_service.py: _calculate_experience_match
\* A ratio that is not capped when the user has more than is required.
calculate_experience_match_uncapped(min_experience, user_experience) ==
    IF min_experience = 0 THEN [num |-> 1, den |-> 1]
    ELSE [num |-> user_experience, den |-> min_experience]

\* The result is the fraction num / den.
calculate_experience_match(min_experience, user_experience) ==
    IF min_experience = 0 THEN [num |-> 1, den |-> 1]
    ELSE IF user_experience >= min_experience THEN [num |-> 1, den |-> 1]
    ELSE IF min_experience > 0 THEN [num |-> user_experience, den |-> min_experience]
    ELSE [num |-> 0, den |-> 1]

CalculateExperienceMatch(min_experience, user_experience) ==
    /\ resp' = [op |-> "_calculate_experience_match",
                request |-> [min_experience |-> min_experience,
                             user_experience |-> user_experience],
                result |-> calculate_experience_match(min_experience, user_experience)]
    /\ UNCHANGED <<dialect, seq, tables, now, tokens, req, bridge>>

\* app/utils/helpers.py: validate_solana_address, called on its own
ValidateSolanaAddress(address) ==
    /\ resp' = [op |-> "validate_solana_address", request |-> address,
                result |-> validate_solana_address(address)]
    /\ UNCHANGED <<dialect, seq, tables, now, tokens, req, bridge>>

\* ------------------------------------------------------- request inputs
EmailA == <<"a","@","x">>
EmailB == <<"b","@","x">>
Emails == {EmailA, EmailB}
NameA == <<"A","n","n">>
NameB == <<"B","o","b">>
Pw1 == <<"p","w","1">>
Pw2 == <<"p","w","2">>
PrivySentinel == <<"p","r","i","v","y","_","a","u","t","h","e","n","t","i","c","a","t","e","d">>
Uni == <<"M","I","T">>
Comp == <<"A","c","m","e">>
WalletA == [i \in 1..32 |-> "A"]
WalletB == [i \in 1..44 |-> "B"]
Salts == {"s1"}

\* What a client can present: a token it was handed, or one with the same
\* claims that it signed without the secret key.
Presentable == tokens \cup {[t EXCEPT !.signed = FALSE] : t \in tokens}

ReqInit == [r \in Requests |-> ReqIdle]
BridgeInit == [register_calls |-> 0, invest_calls |-> 0, registered |-> {}, invested |-> {}]

InitEmpty ==
    /\ dialect \in {"sqlite", "postgresql"}
    /\ seq = [users |-> 0, investments |-> 0]
    /\ users = {} /\ startups = {} /\ jobs = {} /\ cvs = {}
    /\ job_applications = {} /\ job_matches = {} /\ investments = {}
    /\ now = 0
    /\ tokens = {}
    /\ resp = [op |-> "none", status |-> 0]
    /\ req = ReqInit
    /\ bridge = BridgeInit

\* Scenario "accounts": investors register, sync from Privy, log in and are
\* deleted.
RegisterInputs ==
    [full_name : {NameA}, email : Emails, password : {Pw1}, role : {"investor"},
     wallet_address : {None}, university : {None}, company_name : {None}]

LoginInputs == [email : Emails, password : {Pw1, Pw2, PrivySentinel}]

SyncInputs ==
    [email : Emails, full_name : {NameB}, wallet_address : {None}, role : {"None"},
     university : {None}, company_name : {None}]

Init == InitEmpty

Next ==
    \/ \E d \in RegisterInputs, salt \in Salts : Register(d, salt)
    \/ \E c \in LoginInputs : Login(c, FALSE)
    \/ \E d \in SyncInputs : PrivySync(d, FALSE)
    \/ \E user_id \in 1..MaxUserId, fail_at \in 0..6 : DeleteUser(user_id, fail_at)

Spec == Init /\ [][Next]_vars

\* Scenario "tokens": users register, log in, keep the token, present it
\* while the clock advances and users are deleted.
TokenLoginInputs == [email : Emails, password : {Pw1}]

NextTokens ==
    \/ \E d \in RegisterInputs, salt \in Salts : Register(d, salt)
    \/ \E c \in TokenLoginInputs : Login(c, TRUE)
    \/ \E t \in Presentable : GetCurrentUser(t)
    \/ \E user_id \in 1..MaxUserId : DeleteUser(user_id, 0)
    \/ Tick

SpecTokens == Init /\ [][NextTokens]_vars

\* Scenario "profiles": users of every role register, sync and update their
\* profile fields.
ProfileRegisterInputs ==
    [full_name : {NameA}, email : {EmailA}, password : {Pw1},
     role : {"student", "founder", "investor"},
     wallet_address : {None},
     university : {None, <<>>, Uni}, company_name : {None, <<>>, Comp}]

ProfileSyncInputs ==
    [email : {EmailA}, full_name : {None}, wallet_address : {None},
     role : {"None", "student", "founder", "investor"},
     university : {None, Uni}, company_name : {None, Comp}]

ProfileUpdateInputs ==
    [wallet_address : {None}, full_name : {None},
     university : {None, Uni}, company_name : {None, Comp}]

NextProfiles ==
    \/ \E d \in ProfileRegisterInputs, salt \in Salts : Register(d, salt)
    \/ \E d \in ProfileSyncInputs : PrivySync(d, FALSE)
    \/ \E user_id \in 1..MaxUsers, d \in ProfileUpdateInputs : UpdateUser(user_id, d)

SpecProfiles == Init /\ [][NextProfiles]_vars

\* Scenario "deletion": a database that holds users with dependent rows of
\* every table; users are deleted.
SeedUsers == 2

SigReal == <<"5","K","j">>
SigMock == <<"m","o","c","k","_","1">>
ChainOld == <<"S","T","A","R","T","U","P","-","1">>

SeedUser(i) ==
    [id |-> i, full_name |-> NameA, email |-> <<"u", DigitChar(i), "@", "x">>,
     hashed_password |-> get_password_hash(Pw1, "s1"),
     role |-> IF i = 1 THEN "founder" ELSE "investor",
     wallet_address |-> None, university |-> None,
     company_name |-> IF i = 1 THEN Comp ELSE None,
     verified_on_chain |-> Pending]

SeedStartup ==
    [id |-> 1, founder_id |-> 1, startup_id |-> ChainOld, employees_verified |-> 0,
     credibility_score |-> 0, transaction_signature |-> None]

SeedApplications(cv_ids) ==
    {[id |-> i, job_id |-> 1, user_id |-> i, cv_id |-> c] :
        i \in 1..SeedUsers, c \in {NULL} \cup cv_ids}

InitDeletion ==
    /\ dialect = "sqlite"
    /\ seq = [users |-> SeedUsers, investments |-> SeedUsers]
    /\ users = {SeedUser(i) : i \in 1..SeedUsers}
    /\ startups \in SUBSET {SeedStartup}
    /\ jobs \in SUBSET {[id |-> 1, startup_id |-> s.id] : s \in startups}
    /\ cvs \in SUBSET {[id |-> i, user_id |-> i] : i \in 1..SeedUsers}
    /\ job_applications \in
          {A \in SUBSET SeedApplications({c.id : c \in cvs}) :
              /\ jobs = {} => A = {}
              /\ \A x, y \in A : x.id = y.id => x = y}
    /\ job_matches \in
          SUBSET {[id |-> i, job_id |-> j.id, user_id |-> i, score |-> 50] :
                     i \in 1..SeedUsers, j \in jobs}
    /\ investments \in
          SUBSET {[id |-> i, startup_id |-> s.id, investor_id |-> i, amount |-> 100,
                   tx_signature |-> SigReal] : i \in 1..SeedUsers, s \in startups}
    /\ now = 0
    /\ tokens = {}
    /\ resp = [op |-> "none", status |-> 0]
    /\ req = ReqInit
    /\ bridge = BridgeInit

NextDeletion ==
    \E user_id \in 1..(SeedUsers + 1), fail_at \in 0..6 : DeleteUser(user_id, fail_at)

SpecDeletion == InitDeletion /\ [][NextDeletion]_vars

\* Scenario "investment": a founder with a startup and an investor; one
\* send_usdc_investment or verify_startup request runs at a time.
MaxBridgeCalls == 2

WalletBad == <<"0","x","B","a","d">>
ChainUnknown == <<"S","T","A","R","T","U","P","-","9">>
Amounts == {3334, 10000, -4000}
RegisterOutcomes == {"fail", "ok", "no_startup_id"}
InvestOutcomes == {"fail", "ok", "no_signature"}

InitInvestment ==
    /\ dialect = "sqlite"
    /\ seq = [users |-> 2, investments |-> 0]
    /\ \E fw \in {None, WalletA}, fv \in {Pending, Verified},
          iw \in {None, WalletB, WalletBad} :
          users = {[SeedUser(1) EXCEPT !.wallet_address = fw, !.verified_on_chain = fv],
                   [SeedUser(2) EXCEPT !.wallet_address = iw]}
    /\ \E ev \in {0, 5, 6}, sig \in {None, SigMock, SigReal} :
          startups = {[SeedStartup EXCEPT !.employees_verified = ev,
                                          !.transaction_signature = sig]}
    /\ jobs = {} /\ cvs = {} /\ job_applications = {} /\ job_matches = {}
    /\ investments = {}
    /\ now = 0
    /\ tokens = {}
    /\ resp = [op |-> "none", status |-> 0]
    /\ req = ReqInit
    /\ bridge = BridgeInit

Idle == \A r \in Requests : req[r].pc = "idle"

KnownStartupIds == {s.startup_id : s \in startups} \cup {ChainUnknown}

NextInvestment ==
    \/ \E investor_id \in 2..3, startup_id \in KnownStartupIds, amount_usdc \in Amounts :
          /\ bridge.register_calls < MaxBridgeCalls
          /\ bridge.invest_calls < MaxBridgeCalls
          /\ UsdcBegin(1, investor_id, startup_id, amount_usdc)
    \/ \E outcome \in RegisterOutcomes : UsdcRegisterBridge(1, outcome)
    \/ UsdcRegisterCommit(1)
    \/ \E outcome \in InvestOutcomes : UsdcInvestBridge(1, outcome)
    \/ UsdcPersist(1)
    \/ UsdcCredibilityRead(1)
    \/ UsdcCredibilityCommit(1)
    \/ \E startup_id \in KnownStartupIds : Idle /\ VerifyStartup(startup_id)

SpecInvestment == InitInvestment /\ [][NextInvestment]_vars

\* Scenario "concurrent": two send_usdc_investment requests, served by two
\* workers, run step by step in any order against one startup.
InitConcurrent ==
    /\ dialect = "postgresql"
    /\ seq = [users |-> 2, investments |-> 0]
    /\ users = {[SeedUser(1) EXCEPT !.wallet_address = WalletA],
                [SeedUser(2) EXCEPT !.wallet_address = WalletB]}
    /\ \E sig \in {None, SigReal} :
          startups = {[SeedStartup EXCEPT !.transaction_signature = sig]}
    /\ jobs = {} /\ cvs = {} /\ job_applications = {} /\ job_matches = {}
    /\ investments = {}
    /\ now = 0
    /\ tokens = {}
    /\ resp = [op |-> "none", status |-> 0]
    /\ req = ReqInit
    /\ bridge = BridgeInit

InFlight == Cardinality({r \in Requests : req[r].pc # "idle"})

NextConcurrent ==
    \E r \in Requests :
        \/ \E startup_id \in {s.startup_id : s \in startups} :
              /\ bridge.register_calls + InFlight < MaxBridgeCalls
              /\ bridge.invest_calls + InFlight < MaxBridgeCalls
              /\ UsdcBegin(r, 2, startup_id, 3334)
        \/ \E outcome \in {"fail", "ok"} : UsdcRegisterBridge(r, outcome)
        \/ UsdcRegisterCommit(r)
        \/ \E outcome \in {"fail", "ok"} : UsdcInvestBridge(r, outcome)
        \/ UsdcPersist(r)
        \/ UsdcCredibilityRead(r)
        \/ UsdcCredibilityCommit(r)

SpecConcurrent == InitConcurrent /\ [][NextConcurrent]_vars

\* Scenario "lookup": an investor invests, one request at a time, in a
\* startup that is or is not yet registered, and the startup's investments
\* are looked up under the ids in use and under the id the last response
\* named.
LookupIds ==
    {s.startup_id : s \in startups} \cup {ChainOld, ChainUnknown}
        \cup (IF resp.op = "send_usdc_investment" THEN {resp.request.startup_id} ELSE {})

NextLookup ==
    \/ \E startup_id \in {s.startup_id : s \in startups} \cup {ChainOld},
          amount_usdc \in {3334, 10000} :
          /\ bridge.register_calls < MaxBridgeCalls
          /\ bridge.invest_calls < MaxBridgeCalls
          /\ UsdcBegin(1, 2, startup_id, amount_usdc)
    \/ \E outcome \in RegisterOutcomes : UsdcRegisterBridge(1, outcome)
    \/ UsdcRegisterCommit(1)
    \/ \E outcome \in {"fail", "ok"} : UsdcInvestBridge(1, outcome)
    \/ UsdcPersist(1)
    \/ UsdcCredibilityRead(1)
    \/ UsdcCredibilityCommit(1)
    \/ \E startup_id \in LookupIds : Idle /\ GetStartupInvestments(startup_id)

SpecLookup == InitConcurrent /\ [][NextLookup]_vars

\* Scenario "ledger": investments recorded by send_usdc_investment under the
\* signatures the bridge returned; the cleanup script runs and portfolios
\* are read.
ChainTwo == <<"S","T","A","R","T","U","P","-","2">>
SigBase58Mock == <<"m","o","c","k","A","9">>
SigBase58Upper == <<"M","o","c","k","7">>
SigTx == <<"T","1">>

LedgerRows ==
    {[id |-> 1, startup_id |-> 1, investor_id |-> 2, amount |-> 100,
      tx_signature |-> SigMock],
     [id |-> 2, startup_id |-> 1, investor_id |-> 2, amount |-> 200,
      tx_signature |-> SigReal],
     [id |-> 3, startup_id |-> 2, investor_id |-> 2, amount |-> 300,
      tx_signature |-> SigBase58Mock],
     [id |-> 4, startup_id |-> 1, investor_id |-> 3, amount |-> 400,
      tx_signature |-> SigBase58Upper],
     [id |-> 5, startup_id |-> 2, investor_id |-> 3, amount |-> 500,
      tx_signature |-> SigTx]}

InitLedger ==
    /\ dialect \in {"sqlite", "postgresql"}
    /\ seq = [users |-> 3, investments |-> 5]
    /\ users = {SeedUser(i) : i \in 1..3}
    /\ startups = {SeedStartup,
                   [SeedStartup EXCEPT !.id = 2, !.startup_id = ChainTwo]}
    /\ jobs = {} /\ cvs = {} /\ job_applications = {} /\ job_matches = {}
    /\ investments \in SUBSET LedgerRows
    /\ now = 0
    /\ tokens = {}
    /\ resp = [op |-> "none", status |-> 0]
    /\ req = ReqInit
    /\ bridge = BridgeInit

NextLedger ==
    \/ CleanupMockInvestments
    \/ \E investor_id \in 2..4 : GetPortfolio(investor_id)

SpecLedger == InitLedger /\ [][NextLedger]_vars

\* Scenario "functions": the scoring helpers are called on their own.
SubScores == {k * (One \div 6) : k \in 0..6}

GradeScores ==
    {b + d : b \in {4000, 5000, 6000, 7000, 8000}, d \in {-1, 0, 1}}
        \cup {-500, 0, 3500, 8550, 10000, 12000}

MaxSkills == 2
Python == <<"P","y","t","h","o","n">>
python == <<"p","y","t","h","o","n">>
SQL == <<"S","Q","L">>
React == <<"R","e","a","c","t">>
SkillNames == {Python, python, SQL, React}
SkillLists == UNION {[1..n -> SkillNames] : n \in 0..MaxSkills}

MaxExperience == 6

\* Strings of a length around the two limits, of one letter except for one
\* character at either end.
AddressLengths == {31, 32, 33, 43, 44, 45}
AddressChars ==
    {UpperChars[i] : i \in 1..26} \cup {LowerChars[i] : i \in 1..26}
        \cup {DigitChar(i) : i \in 0..9} \cup {"-", " ", "_"}
AddressInputs ==
    {<<>>} \cup UNION {{[i \in 1..n |-> IF i = k THEN c ELSE "A"] :
                          k \in {1, n}, c \in AddressChars} : n \in AddressLengths}

\* Each call starts from the state in which nothing has been called.
NextFunctions ==
    /\ resp.op = "none"
    /\ \/ \E s \in SubScores, l \in SubScores, d \in SubScores, e \in SubScores,
             v \in BOOLEAN : CalculateMatchScore(s, l, d, e, v)
       \/ \E score \in GradeScores : GetCredibilityGrade(score)
       \/ \E required \in SkillLists, user \in SkillLists :
             CalculateSkillsMatch(required, user)
       \/ \E required \in 0..MaxExperience, user \in 0..MaxExperience :
             CalculateExperienceMatch(required, user)
       \/ \E address \in AddressInputs : ValidateSolanaAddress(address)

SpecFunctions == InitEmpty /\ [][NextFunctions]_vars

\* Scenario "round trip": users register under addresses written in either
\* case, are fetched by id and deleted.
EmailUpper == <<"A","@","X">>

RoundTripInputs ==
    [full_name : {NameA}, email : {EmailA, EmailUpper}, password : {Pw1},
     role : {"investor", "student"}, wallet_address : {None},
     university : {Uni}, company_name : {None}]

NextRoundTrip ==
    \/ \E d \in RoundTripInputs, salt \in Salts : Register(d, salt)
    \/ \E user_id \in 1..MaxUserId : GetUser(user_id)
    \/ \E user_id \in 1..MaxUserId : DeleteUser(user_id, 0)

SpecRoundTrip == Init /\ [][NextRoundTrip]_vars

\* ----------------------------------------- scripts/seed_database.py
\* users_data, cut down to one job seeker and one founder
users_data ==
    <<[full_name |-> NameA, email |-> EmailA, password |-> Pw1, role |-> "student",
       wallet_address |-> WalletA, university |-> Uni, company_name |-> None],
      [full_name |-> NameB, email |-> EmailB, password |-> Pw1, role |-> "founder",
       wallet_address |-> WalletB, university |-> None, company_name |-> Comp]>>

WalletWord == <<"W","a","l","l","e","t">>
Technology == <<"T","e","c","h","n","o","l","o","g","y">>
NameTech == <<"T","e","c","h","I","n","n","o","v","a","t","e">>
NameAgri == <<"A","g","r","i","T","e","c","h">>
Described == <<"d","e","s","c">>

\* startups_data, cut down to two startups of the same founder
startups_data(founder_id) ==
    <<[founder_id |-> founder_id, name |-> NameTech, sector |-> Technology,
       employees_verified |-> 2, credibility_score |-> 8550, description |-> Described],
      [founder_id |-> founder_id, name |-> NameAgri, sector |-> Technology,
       employees_verified |-> 1, credibility_score |-> 7800, description |-> Described]>>

\* lines 121-172, one entry: an insert, or an update of the fields that are
\* missing or differ.  Queries read the committed rows U0.
seed_user(U0, session, d) ==
    LET existing == first({u \in U0 : u.email = d.email})
        current_wallet == IF existing.wallet_address = None THEN <<>>
                          ELSE existing.wallet_address
        new_wallet == strip(d.wallet_address)
        is_invalid == \/ contains(current_wallet, WalletWord)
                      \/ Len(current_wallet) < 32 \/ Len(current_wallet) > 44
        is_different == current_wallet # new_wallet
        wallet_taken == \E u \in U0 : u.wallet_address = new_wallet /\ u.id # existing.id
        e1 == IF Truthy(d.wallet_address)
                 /\ (is_invalid \/ (is_different /\ Truthy(new_wallet)))
                 /\ ~wallet_taken
              THEN [existing EXCEPT !.wallet_address = new_wallet] ELSE existing
        e2 == IF Truthy(d.university) /\ ~Truthy(existing.university)
              THEN [e1 EXCEPT !.university = d.university] ELSE e1
        e3 == IF Truthy(d.company_name) /\ ~Truthy(existing.company_name)
              THEN [e2 EXCEPT !.company_name = d.company_name] ELSE e2
        user == [id |-> Max({u.id : u \in session} \cup {0}) + 1,
                 full_name |-> d.full_name, email |-> d.email,
                 hashed_password |-> get_password_hash(d.password, "s1"),
                 role |-> d.role, wallet_address |-> d.wallet_address,
                 university |-> d.university, company_name |-> d.company_name,
                 verified_on_chain |-> Pending]
    IN  IF existing = NoRow THEN session \cup {user}
        ELSE (session \ {existing}) \cup {e3}

RECURSIVE seed_users(_, _, _)
seed_users(U0, session, k) ==
    IF k > Len(users_data) THEN session
    ELSE seed_users(U0, seed_user(U0, session, users_data[k]), k + 1)

\* What registerStartup.js answers for a startup: the same on every run.
seed_bridge_result(d, outcome) ==
    [startup_id |-> <<"C">> \o SubSeq(d.name, 1, 1),
     transaction_signature |-> IF outcome = "ok" THEN <<"R">> \o SubSeq(d.name, 1, 1)
                               ELSE None]

\* f"STARTUP-{founder_id}-{int(time.time())}"
fallback_startup_id(founder_id) ==
    <<"S","T","A","R","T","U","P","-", DigitChar(founder_id), "-", DigitChar(now)>>

startups_ok(rows) ==
    /\ \A x \in rows : x.startup_id # None
    /\ \A x, y \in rows : x.id # y.id => x.startup_id # y.startup_id

\* lines 340-446, one entry.  st carries the committed rows, the session's
\* rows, the number of bridge calls and whether a commit has failed.
seed_startup(st, U, d, outcome) ==
    LET existing0 == first({x \in st.committed :
                               x.name = d.name /\ x.founder_id = d.founder_id})
        existing == first({x \in st.session : x.id = existing0.id})
        founder == first({u \in U : u.id = d.founder_id})
        can_register == /\ founder # NoRow /\ Truthy(founder.wallet_address)
                        /\ validate_solana_address(founder.wallet_address)
        result == seed_bridge_result(d, outcome)
        needs == needs_registration(existing)
        registered == IF needs /\ can_register /\ outcome # "fail"
                      THEN [existing EXCEPT !.startup_id = result.startup_id,
                                            !.transaction_signature =
                                                result.transaction_signature]
                      ELSE existing
        updated == [registered EXCEPT !.employees_verified = d.employees_verified,
                                      !.credibility_score = d.credibility_score,
                                      !.description = d.description]
        after_update == (st.session \ {existing}) \cup {updated}
        startup == [id |-> Max({x.id : x \in st.session} \cup {0}) + 1,
                    founder_id |-> d.founder_id, name |-> d.name,
                    startup_id |-> IF can_register /\ outcome # "fail"
                                   THEN result.startup_id
                                   ELSE fallback_startup_id(d.founder_id),
                    employees_verified |-> d.employees_verified,
                    credibility_score |-> d.credibility_score,
                    transaction_signature |-> IF can_register /\ outcome # "fail"
                                              THEN result.transaction_signature
                                              ELSE None,
                    description |-> d.description]
    IN  IF st.failed THEN st
        ELSE IF existing0 # NoRow
        THEN IF startups_ok(after_update)
             THEN [st EXCEPT !.session = after_update, !.committed = after_update,
                             !.calls = @ + (IF needs /\ can_register THEN 1 ELSE 0)]
             ELSE [st EXCEPT !.session = st.committed, !.failed = TRUE,
                             !.calls = @ + (IF needs /\ can_register THEN 1 ELSE 0)]
        ELSE [st EXCEPT !.session = @ \cup {startup},
                        !.calls = @ + (IF can_register THEN 1 ELSE 0)]

RECURSIVE seed_startups(_, _, _, _, _)
seed_startups(st, U, data, outcomes, k) ==
    IF k > Len(data) THEN st
    ELSE seed_startups(seed_startup(st, U, data[k], outcomes[k]), U, data, outcomes,
                       k + 1)

\* jobs_data, cut down to one job at each of the first two startups
jobs_data(ids) ==
    <<[startup_id |-> ids[1], title |-> <<"d","e","v">>, location |-> <<"B","o">>,
       skills_required |-> <<Python>>, min_experience |-> 0],
      [startup_id |-> ids[2], title |-> <<"f","a","r","m">>, location |-> <<"B","o">>,
       skills_required |-> <<SQL>>, min_experience |-> 2]>>

\* Primary keys in the order db.query(Startup).all() lists them.
RECURSIVE ids_in_order(_)
ids_in_order(ids) ==
    IF ids = {} THEN <<>>
    ELSE LET m == CHOOSE x \in ids : \A y \in ids : x <= y
         IN  <<m>> \o ids_in_order(ids \ {m})

\* lines 470-599: every entry of jobs_data is added
seed_jobs(J, S) ==
    LET ids == ids_in_order({x.id : x \in S})
        data == jobs_data(ids)
        base == Max({j.id : j \in J} \cup {0})
    IN  J \cup {[id |-> base + k] @@ data[k] : k \in 1..Len(data)}

\* seed_database(): the users commit, the startups commits, the removal of
\* incomplete startups and the jobs commit; an exception rolls back what is
\* not committed and ends the run.
SeedDatabase(outcomes) ==
    LET U == seed_users(users, users, 1)
        founder == first({u \in U : u.email = users_data[2].email})
        st0 == [committed |-> startups, session |-> startups, calls |-> 0,
                failed |-> FALSE]
        st1 == seed_startups(st0, U, startups_data(founder.id), outcomes, 1)
        st2 == IF st1.failed THEN st1
               ELSE IF startups_ok(st1.session)
               THEN [st1 EXCEPT !.committed = st1.session]
               ELSE [st1 EXCEPT !.failed = TRUE]
        seed_startup_names == {startups_data(founder.id)[k].name : k \in 1..2}
        incomplete == {x \in st2.committed :
                          x.description = None /\ x.name \notin seed_startup_names}
        cleanup_fails == \E i \in investments : i.startup_id \in {x.id : x \in incomplete}
        S == st2.committed \ incomplete
        enough == Cardinality(S) >= 2
    IN  /\ bridge' = [bridge EXCEPT !.register_calls =
                                       @ + (IF unique_ok(U) THEN st1.calls ELSE 0)]
        /\ IF ~unique_ok(U)
           THEN /\ users' = users /\ startups' = startups /\ jobs' = jobs
                /\ resp' = [op |-> "seed_database", status |-> "IntegrityError",
                            request |-> outcomes]
           ELSE /\ users' = U
                /\ IF st2.failed \/ cleanup_fails
                   THEN /\ startups' = st2.committed /\ jobs' = jobs
                        /\ resp' = [op |-> "seed_database", status |-> "IntegrityError",
                                    request |-> outcomes]
                   ELSE /\ startups' = S
                        /\ IF S = {}
                           THEN /\ jobs' = jobs
                                /\ resp' = [op |-> "seed_database", status |-> "ok",
                                            request |-> outcomes]
                           ELSE IF ~enough
                           THEN /\ jobs' = jobs
                                /\ resp' = [op |-> "seed_database",
                                            status |-> "IndexError",
                                            request |-> outcomes]
                           ELSE /\ jobs' = {IF j.startup_id \in {x.id : x \in incomplete}
                                            THEN [j EXCEPT !.startup_id = NULL] ELSE j :
                                               j \in seed_jobs(jobs, S)}
                                /\ resp' = [op |-> "seed_database", status |-> "ok",
                                            request |-> outcomes]
        /\ UNCHANGED <<dialect, seq, cvs, job_applications, job_matches, investments,
                       now, tokens, req>>

\* Scenario "seed": the seed script runs again and again on a SQLite database
\* in which the seeded addresses may already have registered through the API.
SeedOutcomes == {"fail", "ok", "no_signature"}

SeedRegisterInputs ==
    [full_name : {NameA}, email : Emails, password : {Pw1}, role : {"founder"},
     wallet_address : {None, WalletA}, university : {None}, company_name : {None}]

InitSeed ==
    /\ dialect = "sqlite"
    /\ seq = [users |-> 0, investments |-> 0]
    /\ users = {} /\ startups = {} /\ jobs = {} /\ cvs = {}
    /\ job_applications = {} /\ job_matches = {} /\ investments = {}
    /\ now = 0
    /\ tokens = {}
    /\ resp = [op |-> "none", status |-> 0]
    /\ req = ReqInit
    /\ bridge = BridgeInit

NextSeed ==
    \/ \E d \in SeedRegisterInputs, salt \in Salts : Register(d, salt)
    \/ \E outcomes \in [1..2 -> SeedOutcomes] :
          /\ Cardinality(jobs) < 2 * MaxSeedRuns
          /\ bridge.register_calls < 2 * MaxSeedRuns
          /\ SeedDatabase(outcomes)

SpecSeed == InitSeed /\ [][NextSeed]_vars

\* --------------------------------- app/services/matching_service.py
\* dict.get(key), None when the key is absent
get(d, key) == IF key \in DOMAIN d THEN d[key] ELSE None

\* key in d
has(d, key) == key \in DOMAIN d

\* a dict or a list that is not empty
NotEmpty(d) == DOMAIN d # {}

\* a or b
or_else(a, b) == IF Truthy(a) THEN a ELSE b

Range(s) == {s[i] : i \in 1..Len(s)}

\* str.split(): the words between runs of white space
split(s) ==
    The({LET starts == {i \in 1..Len(t) :
                          ~IsSpace(t[i]) /\ (i = 1 \/ IsSpace(t[i - 1]))}
             stop(i) == CHOOSE j \in i..Len(t) :
                           /\ j = Len(t) \/ IsSpace(t[j + 1])
                           /\ \A k \in i..j : ~IsSpace(t[k])
             start(n) == CHOOSE i \in starts :
                            Cardinality({j \in starts : j <= i}) = n
         IN  [n \in 1..Cardinality(starts) |-> SubSeq(t, start(n), stop(start(n)))] :
            t \in {s}})

\* " ".join(words)
RECURSIVE join(_)
join(words) ==
    IF words = <<>> THEN <<>>
    ELSE IF Len(words) = 1 THEN words[1]
    ELSE words[1] \o <<" ">> \o join(Tail(words))

\* db.query(CV).filter(CV.user_id == user_id).order_by(CV.created_at.desc()).first()
latest_cv(user_id) ==
    LET mine == {c \in cvs : c.user_id = user_id}
    IN  IF mine = {} THEN NoRow
        ELSE CHOOSE c \in mine : \A d \in mine : d.created_at <= c.created_at

\* lines 42-59: the skills of the CV as lower-case, stripped strings
cv_user_skills(cv) ==
    LET skills_data == IF has(cv.json_content, "skills") THEN cv.json_content.skills
                       ELSE [type |-> "dict", value |-> <<>>]
        part(key) == IF has(skills_data.value, key) THEN skills_data.value[key]
                     ELSE <<>>
        raw == IF skills_data.type = "dict"
               THEN part("job_related_skills") \o part("computer_skills")
                    \o part("social_skills")
               ELSE IF skills_data.type = "list"
               THEN [i \in 1..Len(skills_data.value) |->
                        IF skills_data.value[i].type = "dict"
                        THEN skills_data.value[i].value.name
                        ELSE skills_data.value[i].value]
               ELSE <<>>
        kept == SelectSeq(raw, LAMBDA s : Truthy(s))
    IN  IF cv = NoRow \/ ~NotEmpty(cv.json_content) THEN <<>>
        ELSE [i \in 1..Len(kept) |-> strip(lower(kept[i]))]

\* lines 61-67: the degrees of the CV
cv_user_degrees(cv) ==
    LET education == IF has(cv.json_content, "education")
                     THEN cv.json_content.education ELSE <<>>
        degree(edu) == or_else(get(edu, "degree"), get(edu, "qualification"))
        kept == SelectSeq(education, LAMBDA edu : Truthy(degree(edu)))
    IN  IF cv = NoRow \/ ~NotEmpty(cv.json_content) THEN <<>>
        ELSE [i \in 1..Len(kept) |-> strip(lower(degree(kept[i])))]

\* lines 69-74: the work experience entries of the CV
cv_user_experience_list(cv) ==
    IF cv = NoRow \/ ~NotEmpty(cv.json_content) THEN <<>>
    ELSE IF has(cv.json_content, "work_experience")
            /\ NotEmpty(cv.json_content.work_experience)
    THEN cv.json_content.work_experience
    ELSE IF has(cv.json_content, "experience") THEN cv.json_content.experience
    ELSE <<>>

calculate_skills_match_fast(required_skills, user_skills_set) ==
    LET required_set == {lower(s) : s \in Range(required_skills)}
        matches == Cardinality(required_set \cap user_skills_set)
        base_score == (One * matches) \div Len(required_skills)
    IN  IF ~Truthy(required_skills) THEN One
        ELSE IF user_skills_set = {} THEN (3 * One) \div 10
        ELSE IF base_score = 0 THEN (2 * One) \div 10
        ELSE base_score

sector_keywords(job_sector) ==
    CASE job_sector = <<"t","e","c","h","n","o","l","o","g","y">> ->
           <<<<"c","o","m","p","u","t","e","r">>,
             <<"s","o","f","t","w","a","r","e">>,
             <<"i","t">>,
             <<"i","n","f","o","r","m","a","t","i","o","n"," ","t","e","c","h","n","o","l","o","g","y">>,
             <<"e","n","g","i","n","e","e","r","i","n","g">>,
             <<"p","r","o","g","r","a","m","m","i","n","g">>,
             <<"d","e","v","e","l","o","p","e","r">>,
             <<"t","e","c","h">>>>
      [] job_sector = <<"h","e","a","l","t","h","c","a","r","e">> ->
           <<<<"m","e","d","i","c","i","n","e">>,
             <<"m","e","d","i","c","a","l">>,
             <<"h","e","a","l","t","h">>,
             <<"n","u","r","s","i","n","g">>,
             <<"p","h","a","r","m","a","c","y">>,
             <<"p","u","b","l","i","c"," ","h","e","a","l","t","h">>,
             <<"h","e","a","l","t","h","c","a","r","e">>,
             <<"c","l","i","n","i","c","a","l">>>>
      [] job_sector = <<"a","g","r","i","c","u","l","t","u","r","e">> ->
           <<<<"a","g","r","i","c","u","l","t","u","r","e">>,
             <<"a","g","r","i","c","u","l","t","u","r","a","l">>,
             <<"f","a","r","m","i","n","g">>,
             <<"a","g","r","o","n","o","m","y">>,
             <<"c","r","o","p">>,
             <<"l","i","v","e","s","t","o","c","k">>,
             <<"r","u","r","a","l">>>>
      [] job_sector = <<"e","d","u","c","a","t","i","o","n">> ->
           <<<<"e","d","u","c","a","t","i","o","n">>,
             <<"t","e","a","c","h","i","n","g">>,
             <<"p","e","d","a","g","o","g","y">>,
             <<"c","u","r","r","i","c","u","l","u","m">>,
             <<"a","c","a","d","e","m","i","c">>,
             <<"t","e","a","c","h","e","r">>>>
      [] job_sector = <<"f","i","n","a","n","c","e">> ->
           <<<<"f","i","n","a","n","c","e">>,
             <<"f","i","n","a","n","c","i","a","l">>,
             <<"a","c","c","o","u","n","t","i","n","g">>,
             <<"e","c","o","n","o","m","i","c","s">>,
             <<"b","u","s","i","n","e","s","s">>,
             <<"b","a","n","k","i","n","g">>,
             <<"c","o","m","m","e","r","c","e">>>>
      [] job_sector = <<"e","n","g","i","n","e","e","r","i","n","g">> ->
           <<<<"e","n","g","i","n","e","e","r","i","n","g">>,
             <<"c","i","v","i","l">>,
             <<"e","l","e","c","t","r","i","c","a","l">>,
             <<"m","e","c","h","a","n","i","c","a","l">>,
             <<"s","t","r","u","c","t","u","r","a","l">>>>
      [] job_sector = <<"c","o","n","s","t","r","u","c","t","i","o","n">> ->
           <<<<"c","o","n","s","t","r","u","c","t","i","o","n">>,
             <<"c","i","v","i","l"," ","e","n","g","i","n","e","e","r","i","n","g">>,
             <<"a","r","c","h","i","t","e","c","t","u","r","e">>,
             <<"b","u","i","l","d","i","n","g">>>>
      [] OTHER -> <<>>

\* job.startup.sector.lower() if job.startup and job.startup.sector else ""
job_sector_of(startup) ==
    IF startup # NoRow /\ Truthy(startup.sector) THEN lower(startup.sector) ELSE <<>>

calculate_degree_match_realistic(job, startup, user_degrees) ==
    LET job_sector == job_sector_of(startup)
        job_title == lower(job.title)
        job_description == lower(or_else(job.description, <<>>))
        user_degree_text == lower(join(user_degrees))
        relevant_keywords == sector_keywords(job_sector)
        hits == {i \in 1..Len(relevant_keywords) :
                    \/ contains(user_degree_text, relevant_keywords[i])
                    \/ contains(job_title, relevant_keywords[i])
                    \/ contains(job_description, relevant_keywords[i])}
        keyword == relevant_keywords[CHOOSE i \in hits : \A j \in hits : i <= j]
    IN  IF user_degrees = <<>> THEN 0
        ELSE IF job_sector # <<>> /\ hits # {}
        THEN IF \E i \in 1..Len(user_degrees) : contains(user_degrees[i], keyword)
             THEN One ELSE (3 * One) \div 10
        ELSE One \div 10

description_words == 50

calculate_experience_match_realistic(job, startup, user_experience_list, min_experience) ==
    LET job_title == lower(or_else(job.title, <<>>))
        job_description == lower(or_else(job.description, <<>>))
        job_sector == job_sector_of(startup)
        words == split(job_description)
        job_keywords == Range(split(job_title))
                        \cup Range(SubSeq(words, 1, Min(description_words, Len(words))))
                        \cup (IF job_sector # <<>> THEN {job_sector} ELSE {})
        responsibilities(exp) == IF has(exp, "responsibilities")
                                 THEN exp.responsibilities ELSE <<>>
        exp_text(exp) ==
            lower(lower(or_else(or_else(get(exp, "title"), get(exp, "position")), <<>>))
                  \o <<" ">>
                  \o lower(or_else(or_else(get(exp, "company"), get(exp, "employer")),
                                   <<>>))
                  \o <<" ">> \o lower(or_else(get(exp, "description"), <<>>))
                  \o <<" ">> \o join(responsibilities(exp)))
        relevant(exp) ==
            Cardinality(job_keywords \cap Range(split(exp_text(exp)))) > 2
        relevant_experience_count ==
            Cardinality({i \in 1..Len(user_experience_list) :
                            relevant(user_experience_list[i])})
    IN  IF user_experience_list = <<>>
        THEN IF min_experience = 0 THEN One \div 2 ELSE 0
        ELSE IF min_experience = 0
        THEN IF relevant_experience_count > 0 THEN One ELSE One \div 2
        ELSE IF relevant_experience_count >= min_experience THEN One
        ELSE IF relevant_experience_count > 0
        THEN Min((8 * One) \div 10, (One * relevant_experience_count) \div min_experience)
        ELSE 0

\* Called with the three sub-scores computed by the caller.
calculate_job_match_score_fast(job, has_verified_certs, user_location, skills_match, degree_match, experience_match) ==
    LET location_match == IF Truthy(user_location)
                             /\ lower(user_location) = lower(job.location)
                          THEN One ELSE One \div 2
    IN  calculate_match_score(skills_match, location_match, degree_match,
                              experience_match, has_verified_certs)

\* column.ilike(f"%{value}%") for a value without LIKE wildcards
ilike_contains(column, value) ==
    column # None /\ contains(lower(column), lower(value))

\* lines 82-95: the jobs joined to their startup, after the filters
candidate_jobs(category, location) ==
    {j \in jobs :
        /\ \E s \in startups :
              /\ s.id = j.startup_id
              /\ Truthy(category) => ilike_contains(s.sector, category)
        /\ Truthy(location) => ilike_contains(j.location, location)}

\* lines 36-75 and 101: what the matching reads from the user's latest CV
user_profile(user_id) ==
    The({[user_skills_set |-> {lower(s) : s \in Range(cv_user_skills(cv))},
          user_degrees |-> SelectSeq(cv_user_degrees(cv), LAMBDA d : TRUE),
          user_experience_list |-> cv_user_experience_list(cv)] :
            cv \in {latest_cv(user_id)}})

\* lines 104-138: the entry of one job, with its scores in thousandths
job_match(job, profile) ==
    The({[job_id |-> job.id, job_title |-> job.title, startup_id |-> job.startup_id,
          startup_name |-> startup.name, startup_sector |-> startup.sector,
          location |-> job.location,
          match_score |-> calculate_job_match_score_fast(job, FALSE, None, skills_match,
                                                         degree_match, experience_match),
          skills_match |-> skills_match, degree_match |-> degree_match,
          experience_match |-> experience_match] :
            startup \in {first({x \in startups : x.id = job.startup_id})},
            skills_match \in {calculate_skills_match_fast(job.skills_required,
                                                          profile.user_skills_set)},
            degree_match \in
                {calculate_degree_match_realistic(
                     job, first({x \in startups : x.id = job.startup_id}),
                     profile.user_degrees)},
            experience_match \in
                {calculate_experience_match_realistic(
                     job, first({x \in startups : x.id = job.startup_id}),
                     profile.user_experience_list, job.min_experience)}})

\* matches.sort(key=lambda x: x["match_score"], reverse=True): a stable sort,
\* in which a match stands behind the better ones and the equal ones listed
\* before it
sort_matches(matches) ==
    LET place(i) == Cardinality({j \in 1..Len(matches) :
                                    \/ matches[j].match_score > matches[i].match_score
                                    \/ /\ matches[j].match_score = matches[i].match_score
                                       /\ j < i}) + 1
    IN  [p \in 1..Len(matches) |-> matches[CHOOSE i \in 1..Len(matches) : place(i) = p]]

\* matches[:limit]
slice_to(matches, limit) ==
    IF limit >= 0 THEN SubSeq(matches, 1, Min(limit, Len(matches)))
    ELSE SubSeq(matches, 1, Max({Len(matches) + limit, 0}))

\* A persistence that records every returned match again.
new_matches_unfiltered(top_matches, existing_job_ids) == top_matches

\* lines 157-160: the returned matches whose pair is not recorded yet
new_matches(top_matches, existing_job_ids) ==
    SelectSeq(top_matches, LAMBDA m : m.job_id \notin existing_job_ids)

\* if score > 0.1, in thousandths
match_threshold == 100

\* A persistence that also brings the score of a recorded pair up to date.
persist_refreshing(user_id, top_matches) ==
    LET job_ids == {top_matches[i].job_id : i \in 1..Len(top_matches)}
        existing_job_ids == {em.job_id : em \in {x \in job_matches :
                                                    x.job_id \in job_ids
                                                    /\ x.user_id = user_id}}
        added == new_matches(top_matches, existing_job_ids)
        base == Max({x.id : x \in job_matches} \cup {0})
        refreshed(x) ==
            IF x.user_id = user_id /\ x.job_id \in job_ids
            THEN [x EXCEPT !.score =
                     top_matches[CHOOSE i \in 1..Len(top_matches) :
                                    top_matches[i].job_id = x.job_id].match_score]
            ELSE x
    IN  {refreshed(x) : x \in job_matches} \cup
            {[id |-> base + k, job_id |-> added[k].job_id, user_id |-> user_id,
              score |-> added[k].match_score] : k \in 1..Len(added)}

\* lines 150-163: the rows added for the returned matches
persist(user_id, top_matches) ==
    LET job_ids == {top_matches[i].job_id : i \in 1..Len(top_matches)}
        existing_job_ids == {em.job_id : em \in {x \in job_matches :
                                                    x.job_id \in job_ids
                                                    /\ x.user_id = user_id}}
        added == new_matches(top_matches, existing_job_ids)
        base == Max({x.id : x \in job_matches} \cup {0})
    IN  job_matches \cup
            {[id |-> base + k, job_id |-> added[k].job_id, user_id |-> user_id,
              score |-> added[k].match_score] : k \in 1..Len(added)}

\* lines 104-145: the matches above the threshold, best first
ranked_matches(user_id, candidates, order) ==
    The({The({sort_matches(scored) :
                 scored \in {SelectSeq([i \in 1..Len(order) |->
                                           job_match(first({j \in candidates :
                                                               j.id = order[i]}),
                                                     profile)],
                                       LAMBDA m : m.match_score > match_threshold)}}) :
            profile \in {user_profile(user_id)}})

\* The matches of a user; order is the order in which query.all() lists the
\* candidate jobs.
match_user_to_jobs(user_id, limit, category, location, order) ==
    IF first({u \in users : u.id = user_id}) = NoRow
    THEN [top_matches |-> <<>>, job_matches |-> job_matches]
    ELSE The({[top_matches |-> top_matches,
               job_matches |-> persist(user_id, top_matches)] :
                 top_matches \in
                     {slice_to(matches, limit) :
                         matches \in {ranked_matches(user_id,
                                                     candidate_jobs(category, location),
                                                     order)}}})

\* POST /api/jobs/match
MatchUserToJobs(user_id, limit, category, location, order) ==
    \E r \in {match_user_to_jobs(user_id, limit, category, location, order)} :
        /\ job_matches' = r.job_matches
        /\ resp' = [op |-> "match_user_to_jobs",
                    request |-> [user_id |-> user_id, limit |-> limit,
                                 category |-> category, location |-> location],
                    matches |-> r.top_matches, count |-> Len(r.top_matches)]
        /\ UNCHANGED <<dialect, seq, users, startups, jobs, cvs, job_applications,
                       investments, now, tokens, req, bridge>>

\* ------------------------------------------------- cv/cv_generator.py
\* generate_cv, lines 109-162: the CV written by the AI service is stored as
\* a new row, which becomes the user's latest CV.  cv_json is what the AI
\* service returned; an unknown user raises before anything is written.
GenerateCv(user_id, cv_json) ==
    /\ IF first({u \in users : u.id = user_id}) = NoRow
       THEN /\ cvs' = cvs
            /\ resp' = [op |-> "generate_cv", status |-> 400, request |-> user_id]
       ELSE LET id == Max({c.id : c \in cvs} \cup {0}) + 1
                created_at == Max({c.created_at : c \in cvs} \cup {0}) + 1
            IN  /\ cvs' = cvs \cup {[id |-> id, user_id |-> user_id,
                                     created_at |-> created_at,
                                     json_content |-> cv_json]}
                /\ resp' = [op |-> "generate_cv", status |-> 200, request |-> user_id]
    /\ UNCHANGED <<dialect, seq, users, startups, jobs, job_applications, job_matches,
                   investments, now, tokens, req, bridge>>

\* Scenario "matching": a user with zero, one or two CVs, and an id that
\* belongs to nobody, are matched again and again to the jobs of two startups
\* and to a job without a startup.
MaxLimit == 1
default_limit == 10
Limits == (-1..MaxLimit) \cup {default_limit}

Agriculture == <<"A","g","r","i","c","u","l","t","u","r","e">>
Freetown == <<"F","r","e","e","t","o","w","n">>
BoTown == <<"B","o">>

MatchStartups ==
    {[id |-> 1, founder_id |-> 1, name |-> NameTech, sector |-> Technology,
      startup_id |-> ChainOld, employees_verified |-> 0, credibility_score |-> 0,
      transaction_signature |-> None],
     [id |-> 2, founder_id |-> 1, name |-> NameAgri, sector |-> Agriculture,
      startup_id |-> ChainTwo, employees_verified |-> 0, credibility_score |-> 0,
      transaction_signature |-> None]}

MatchJobs ==
    {[id |-> 1, startup_id |-> 1, title |-> <<"P","y","t","h","o","n"," ","D","e","v","e","l","o","p","e","r">>,
      description |-> <<"b","u","i","l","d"," ","s","o","f","t","w","a","r","e">>, location |-> Freetown,
      skills_required |-> <<Python, SQL>>, min_experience |-> 1],
     [id |-> 2, startup_id |-> NULL, title |-> <<"C","l","e","r","k">>,
      description |-> <<"o","f","f","i","c","e">>, location |-> Freetown,
      skills_required |-> <<>>, min_experience |-> 0],
     [id |-> 3, startup_id |-> 1, title |-> <<"I","n","t","e","r","n">>,
      description |-> <<"h","e","l","p">>, location |-> BoTown,
      skills_required |-> <<>>, min_experience |-> 0],
     [id |-> 4, startup_id |-> 2, title |-> <<"F","a","r","m"," ","h","a","n","d">>,
      description |-> <<"c","r","o","p"," ","w","o","r","k">>, location |-> BoTown,
      skills_required |-> <<>>, min_experience |-> 0]}

\* A CV in the simple list format and one in the Europass format
MatchCvs ==
    {[id |-> 1, user_id |-> 1, created_at |-> 1,
      json_content |->
          [skills |-> [type |-> "list",
                       value |-> <<[type |-> "str", value |-> <<" ","P","y","t","h","o","n"," ">>],
                                   [type |-> "dict", value |-> [name |-> React]]>>],
           education |-> <<[degree |-> <<"B","S","c"," ","C","o","m","p","u","t","e","r"," ","S","c","i","e","n","c","e">>]>>,
           work_experience |-> <<[title |-> <<"P","y","t","h","o","n"," ","D","e","v","e","l","o","p","e","r">>,
                                  company |-> Comp,
                                  description |-> <<"s","o","f","t","w","a","r","e">>]>>]],
     [id |-> 2, user_id |-> 1, created_at |-> 2,
      json_content |->
          [skills |-> [type |-> "dict",
                       value |-> [job_related_skills |-> <<<<"F","a","r","m","i","n","g">>>>,
                                  computer_skills |-> <<SQL>>]],
           education |-> <<[qualification |-> <<"D","i","p","l","o","m","a">>]>>]]}

Orders(S) ==
    {p \in [1..Cardinality(S) -> S] : \A i, j \in 1..Cardinality(S) : p[i] = p[j] => i = j}

InitMatching ==
    /\ dialect = "sqlite"
    /\ seq = [users |-> 1, investments |-> 0]
    /\ users = {SeedUser(1)}
    /\ startups = MatchStartups
    /\ jobs = MatchJobs
    /\ cvs \in SUBSET MatchCvs
    /\ job_applications = {} /\ job_matches = {} /\ investments = {}
    /\ now = 0
    /\ tokens = {}
    /\ resp = [op |-> "none", status |-> 0]
    /\ req = ReqInit
    /\ bridge = BridgeInit

NextMatching ==
    \E user_id \in {1, 2}, limit \in Limits,
       category \in {None, <<"t","e","c","h">>}, location \in {None, <<"b","o">>} :
        \E order \in Orders({j.id : j \in candidate_jobs(category, location)}) :
            MatchUserToJobs(user_id, limit, category, location, order)

SpecMatching == InitMatching /\ [][NextMatching]_vars

\* Scenario "rematch": a user who has no CV yet writes CVs and is matched to
\* the same jobs between them.
MaxCvs == 2

CvContents == {c.json_content : c \in MatchCvs}

InitRematch ==
    /\ dialect = "sqlite"
    /\ seq = [users |-> 1, investments |-> 0]
    /\ users = {SeedUser(1)}
    /\ startups = MatchStartups
    /\ jobs = MatchJobs
    /\ cvs = {}
    /\ job_applications = {} /\ job_matches = {} /\ investments = {}
    /\ now = 0
    /\ tokens = {}
    /\ resp = [op |-> "none", status |-> 0]
    /\ req = ReqInit
    /\ bridge = BridgeInit

NextRematch ==
    \/ \E user_id \in {1, 2}, cv_json \in CvContents :
          /\ Cardinality(cvs) < MaxCvs
          /\ GenerateCv(user_id, cv_json)
    \/ \E user_id \in {1, 2}, limit \in {1, default_limit},
          category \in {None, <<"t","e","c","h">>} :
          \E order \in Orders({j.id : j \in candidate_jobs(category, None)}) :
              MatchUserToJobs(user_id, limit, category, None, order)

SpecRematch == InitRematch /\ [][NextRematch]_vars

\* ------------------------------------------------------------------ claims
HasEmail(rows, email) == \E u \in rows : u.email = email

\* C6: after any sequence of register and privy/sync calls there is at most
\* one user row per email; a register call whose email already belongs to a
\* user answers 400 and leaves the users table unchanged; a privy/sync call
\* for an existing email updates that row and creates no second one.
C6_OneUserPerEmail ==
    /\ [](\A u, v \in users : u.email = v.email => u = v)
    /\ [][/\ \A d \in RegisterInputs, salt \in Salts :
                (Register(d, salt) /\ HasEmail(users, d.email))
                    => (resp'.status = 400 /\ users' = users)
          /\ \A d \in SyncInputs :
                (PrivySync(d, FALSE) /\ HasEmail(users, d.email))
                    => /\ {u.id : u \in users'} = {u.id : u \in users}
                       /\ resp'.status = 200
                       /\ resp'.user \in users'
                       /\ resp'.user.email = d.email
                       /\ Truthy(d.full_name) => resp'.user.full_name = d.full_name
         ]_vars

C6_Witness ==
    /\ Cardinality(users) = 2
    /\ resp.op = "sync_privy_user"
    /\ resp.status = 200
    /\ resp.request.full_name = NameB
    /\ \E u \in users : /\ u.email = resp.request.email
                        /\ u.full_name = NameB
                        /\ IsBcryptHash(u.hashed_password)

\* The stored hash is a bcrypt hash of this password.
PasswordMatches(u, password) ==
    /\ Len(u.hashed_password) = Len(password) + 2
    /\ u.hashed_password[1] = "$2b$"
    /\ \A i \in 1..Len(password) : u.hashed_password[i + 2] = password[i]

\* C7: login_user answers 200 with a bearer token exactly when a user with
\* the submitted email exists and the password matches its stored hash; in
\* every other case it answers 401 and issues no token.
C7_LoginExactly ==
    [][\A c \in LoginInputs :
          Login(c, FALSE) =>
              LET ok == \E u \in users : u.email = c.email /\ PasswordMatches(u, c.password)
              IN  IF ok
                  THEN resp'.status = 200 /\ resp'.token # NoRow
                  ELSE resp'.status = 401 /\ resp'.token = NoRow /\ tokens' = tokens
      ]_vars

\* C8: a token is accepted only for the user it was issued to, whose email
\* it carries; once delete_user has removed that user every request with the
\* token is answered 401.
C8_TokenOfDeletedUserRejected ==
    [][\A t \in Presentable :
          (GetCurrentUser(t) /\ resp'.status = 200) => resp'.user.email = t.email
      ]_vars

\* C9: for a user created through privy/sync, whose stored password field is
\* the sentinel and not a hash, login_user never returns an access token,
\* whatever password is submitted.
C9_SentinelNeverLogsIn ==
    [][\A c \in LoginInputs :
          (Login(c, FALSE) /\ \E u \in users : u.email = c.email
                                        /\ u.hashed_password = PrivySentinel)
              => /\ resp'.status # 200
                 /\ resp'.token = NoRow
                 /\ tokens' = tokens
      ]_vars

C9_Witness ==
    /\ resp.op = "login_user"
    /\ resp.request.password = PrivySentinel
    /\ resp.status # 200
    /\ \E u \in users : /\ u.email = resp.request.email
                        /\ u.hashed_password = PrivySentinel

NeedsUniversity(role, d) == role = "student" /\ (d.university = None \/ d.university = <<>>)
NeedsCompany(role, d) == role = "founder" /\ (d.company_name = None \/ d.company_name = <<>>)

\* C10: register_user, and the create branch of sync_privy_user, answer 400
\* to a job-seeker request without a university and to a founder request
\* without a company name and create no user row; investor requests need
\* neither field.
C10_RoleRequiredFields ==
    [][/\ \A d \in ProfileRegisterInputs, salt \in Salts :
             (Register(d, salt) /\ ~HasEmail(users, d.email)) =>
                 /\ (NeedsUniversity(d.role, d) \/ NeedsCompany(d.role, d))
                        => (resp'.status = 400 /\ users' = users)
                 /\ d.role = "investor" => resp'.status # 400
       /\ \A d \in ProfileSyncInputs :
             (PrivySync(d, FALSE) /\ ~HasEmail(users, d.email)) =>
                 LET role == IF d.role = "None" THEN "investor" ELSE d.role
                 IN  /\ (NeedsUniversity(role, d) \/ NeedsCompany(role, d))
                            => (resp'.status = 400 /\ users' = users)
                     /\ role = "investor" => resp'.status # 400
      ]_vars

C10_Witness ==
    /\ resp.op = "register_user"
    /\ resp.status = 400
    /\ resp.request.role = "student"
    /\ resp.request.university = <<>>
    /\ ~HasEmail(users, resp.request.email)

\* The rows the claim names for user uid, by table and primary key: the user,
\* the user's CVs, applications, matches and investments, the startups the
\* user founded, their jobs, and those jobs' matches and applications.
NamedRows(uid) ==
    LET founded == {s.id : s \in {x \in startups : x.founder_id = uid}}
        theirjobs == {j.id : j \in {x \in jobs : x.startup_id \in founded}}
    IN  [users |-> {uid},
         cvs |-> {c.id : c \in {x \in cvs : x.user_id = uid}},
         job_applications |->
             {a.id : a \in {x \in job_applications :
                               x.user_id = uid \/ x.job_id \in theirjobs}},
         job_matches |->
             {m.id : m \in {x \in job_matches :
                               x.user_id = uid \/ x.job_id \in theirjobs}},
         investments |-> {i.id : i \in {x \in investments : x.investor_id = uid}},
         startups |-> founded,
         jobs |-> theirjobs]

\* C1: delete_user is all-or-nothing.  When it answers 200 every row the
\* claim names is gone; when it fails every table is exactly as it was before
\* the call.
C1_DeleteAllOrNothing ==
    [][\A uid \in 1..(SeedUsers + 1), k \in 0..6 :
          DeleteUser(uid, k) =>
              IF resp'.status = 200
              THEN LET n == NamedRows(uid)
                   IN  /\ \A u \in users' : u.id \notin n.users
                       /\ \A c \in cvs' : c.id \notin n.cvs
                       /\ \A a \in job_applications' : a.id \notin n.job_applications
                       /\ \A m \in job_matches' : m.id \notin n.job_matches
                       /\ \A i \in investments' : i.id \notin n.investments
                       /\ \A s \in startups' : s.id \notin n.startups
                       /\ \A j \in jobs' : j.id \notin n.jobs
              ELSE tables' = tables
      ]_vars

\* A founder with a startup, a job, a CV, a match and an application was
\* deleted, and another user's rows remain.
C1_Witness ==
    /\ resp.op = "delete_user"
    /\ resp.status = 200
    /\ resp.deleted.startups = 1
    /\ resp.deleted.cvs = 1
    /\ resp.deleted.job_matches = 1
    /\ resp.deleted.job_applications = 1
    /\ jobs = {}
    /\ Cardinality(users) = SeedUsers - 1
    /\ cvs # {}

\* The startup row a request works on, before and after a step.
StartupOf(r) == first({s \in startups : s.id = req[r].startup_pk})
StartupOfAfter(r) == first({s \in startups' : s.id = req[r].startup_pk})

\* C2: within one send_usdc_investment call an Investment row is committed
\* only after the investment bridge call returned successfully and carries the
\* signature the bridge returned; the credibility recomputation starts only
\* after that commit; a failed investment bridge call ends the call without
\* an Investment row.
C2_InvestmentOrdering ==
    /\ [](\A i \in investments :
             [transaction_signature |-> i.tx_signature] \in bridge.invested)
    /\ [][\A r \in Requests :
            /\ (req[r].pc # "idle" /\ investments' # investments) =>
                  /\ req[r].inv_result \in bridge.invested
                  /\ \E i \in investments' \ investments :
                        /\ investments' = investments \cup {i}
                        /\ i.tx_signature = req[r].inv_result.transaction_signature
                        /\ i.investor_id = req[r].investor_id
                        /\ i.startup_id = req[r].startup_pk
                        /\ i.amount = req[r].amount_usdc
            /\ (req[r].pc # "idle" /\ req[r].score # req'[r].score) =>
                  \E i \in investments :
                        /\ i.tx_signature = req[r].inv_result.transaction_signature
                        /\ i.startup_id = req[r].startup_pk
            /\ (req[r].pc # "idle" /\ StartupOfAfter(r).credibility_score
                                        # StartupOf(r).credibility_score) =>
                  \E i \in investments :
                        i.tx_signature = req[r].inv_result.transaction_signature
            /\ UsdcInvestBridge(r, "fail") =>
                  /\ investments' = investments
                  /\ req'[r].pc = "idle"
                  /\ resp'.status = 500 ]_vars

\* A call that was answered 200 after an earlier investment bridge failure.
C2_Witness ==
    /\ resp.op = "send_usdc_investment" /\ resp.status = 200
    /\ bridge.invest_calls > Cardinality(bridge.invested)
    /\ \E i \in investments : i.tx_signature = resp.transaction_signature

\* "absent or starts with 'mock_'"
NeedsRegistration(sig) ==
    \/ sig = None
    \/ Len(sig) >= 5 /\ SubSeq(sig, 1, 5) = <<"m","o","c","k","_">>

\* C3: a send_usdc_investment call that passes its checks calls the
\* registration bridge exactly when the startup's signature is absent or
\* starts with 'mock_', before the investment bridge call, and stores the
\* returned id and signature; for a startup with a real signature the call
\* never registers and leaves startup_id and transaction_signature unchanged.
C3_RegistrationWhenNeeded ==
    [][\A r \in Requests :
          /\ (\E o \in RegisterOutcomes : UsdcRegisterBridge(r, o)) =>
                /\ NeedsRegistration(StartupOf(r).transaction_signature)
                /\ req[r].inv_result = NoResult
          /\ (req[r].pc = "idle" /\ req'[r].pc # "idle") =>
                \A s \in startups : s.id = req'[r].startup_pk =>
                    (req'[r].pc = "register"
                        <=> NeedsRegistration(s.transaction_signature))
          /\ (\E o \in InvestOutcomes : UsdcInvestBridge(r, o)) =>
                (req[r].reg_result # NoResult
                    <=> NeedsRegistration(req[r].loaded_signature))
          /\ UsdcRegisterCommit(r) =>
                /\ StartupOfAfter(r).transaction_signature
                      = req[r].reg_result.transaction_signature
                /\ req[r].reg_result.startup_id # None =>
                      /\ StartupOfAfter(r).startup_id = req[r].reg_result.startup_id
                      /\ req'[r].onchain_id = req[r].reg_result.startup_id
          /\ (req[r].pc # "idle" /\ ~NeedsRegistration(req[r].loaded_signature)) =>
                /\ bridge'.register_calls = bridge.register_calls
                /\ StartupOfAfter(r).startup_id = StartupOf(r).startup_id
                /\ StartupOfAfter(r).transaction_signature
                      = StartupOf(r).transaction_signature ]_vars

\* A startup that carried the mock signature holds the registered id and
\* signature, and an investment went through.
C3_Witness ==
    /\ \E s \in startups, g \in bridge.registered :
          /\ g.startup_id # None
          /\ s.startup_id = g.startup_id
          /\ s.transaction_signature = g.transaction_signature
    /\ bridge.invest_calls > 0
    /\ resp.op = "send_usdc_investment" /\ resp.status = 200

\* The requests C4 names, read off the rows.
C4_Precondition(investor_id, startup_id) ==
    LET I == {u \in users : u.id = investor_id}
        S == {s \in startups : s.startup_id = startup_id}
    IN  \/ I = {}
        \/ \E u \in I : u.wallet_address = None
        \/ \E u \in I : u.wallet_address # None
                        /\ ~validate_solana_address(strip(u.wallet_address))
        \/ S = {}
        \/ \E s \in S :
              /\ NeedsRegistration(s.transaction_signature)
              /\ \A u \in users : u.id = s.founder_id => u.wallet_address = None

\* C4: send_usdc_investment fails, calls no bridge and changes no row when
\* the investor does not exist, has no wallet address or an invalid one, the
\* startup id is unknown, or the startup needs registration and its founder
\* has no wallet address.
C4_FailsBeforeAnyEffect ==
    [][\A r \in Requests, investor_id \in 2..3, startup_id \in KnownStartupIds,
         amount_usdc \in Amounts :
          (UsdcBegin(r, investor_id, startup_id, amount_usdc)
             /\ C4_Precondition(investor_id, startup_id)) =>
                /\ resp'.op = "send_usdc_investment"
                /\ resp'.status = 400
                /\ resp'.request.investor_id = investor_id
                /\ tables' = tables
                /\ bridge' = bridge
                /\ req'[r].pc = "idle" ]_vars

\* The founder of a startup that needs registration has no wallet.
C4_Witness ==
    /\ resp.op = "send_usdc_investment" /\ resp.status = 400
    /\ resp.detail = "Startup founder must have a wallet address"
    /\ bridge = BridgeInit
    /\ investments = {}

\* The score C5 states, in hundredths of a point, over the given rows.
C5_Score(s, U, I) ==
    LET total == sum_amounts({i \in I : i.startup_id = s.id})
        thousandths ==
            1000 * (IF 8 * s.employees_verified < 40
                    THEN 8 * s.employees_verified ELSE 40)
            + (IF \E u \in U : u.id = s.founder_id /\ u.verified_on_chain = Verified
               THEN 20000 ELSE 0)
            + (IF 3 * total < 30000 THEN 3 * total ELSE 30000)
            + (IF s.transaction_signature # None THEN 10000 ELSE 0)
        down == thousandths \div 10
        rest == thousandths - 10 * down
    IN  IF rest < 5 \/ (rest = 5 /\ down % 2 = 0) THEN down ELSE down + 1

C5_Stored(s) ==
    /\ s.credibility_score = C5_Score(s, users, investments)
    /\ ( /\ s.employees_verified = 5
         /\ \E u \in users : u.id = s.founder_id /\ u.verified_on_chain = Verified
         /\ sum_amounts({i \in investments : i.startup_id = s.id}) = 10000
         /\ s.transaction_signature # None ) => s.credibility_score = 10000

\* C5: when calculate_startup_credibility has run for a startup, at the end
\* of a send_usdc_investment or verify_startup answered 200, the stored
\* credibility_score is round(min(40, 8*employees_verified) + 20 for a
\* verified founder + min(30, 30*total/10000) + 10 for a signature, 2) over
\* the current rows; 5 employees, a verified founder, 10000 USDC and a
\* signature give exactly 100.0.
C5_StoredScore ==
    [][ /\ \A r \in Requests :
              UsdcCredibilityCommit(r) =>
                  \A s \in startups' : s.id = req[r].startup_pk => C5_Stored(s)'
        /\ \A startup_id \in KnownStartupIds :
              (VerifyStartup(startup_id) /\ resp'.status = 200) =>
                  \A s \in startups' : s.startup_id = startup_id => C5_Stored(s)' ]_vars

\* The 100.0 example, after an investment of 10000 USDC.
C5_Witness ==
    /\ resp.op = "send_usdc_investment" /\ resp.status = 200
    /\ \E s \in startups :
          /\ s.employees_verified = 5
          /\ s.credibility_score = 10000
          /\ sum_amounts({i \in investments : i.startup_id = s.id}) = 10000

\* C11: in every state reached through register_user, sync_privy_user and
\* update_user, a user row has a non-empty university only if its role is
\* job seeker ("student") and a non-empty company_name only if its role is
\* founder.
C11_RoleFieldsOnlyForRole ==
    \A u \in users :
        /\ Truthy(u.university) => u.role = "student"
        /\ Truthy(u.company_name) => u.role = "founder"

\* "starts with the five characters 'mock_'"
StartsWithMock_(sig) ==
    Len(sig) >= 5 /\ SubSeq(sig, 1, 5) = <<"m","o","c","k","_">>

\* C12: cleanup_mock_investments deletes every Investment row whose
\* tx_signature starts with the five characters 'mock_' and no other row;
\* every other Investment is still present, unchanged.
C12_CleanupRemovesExactlyMock ==
    [][CleanupMockInvestments =>
          investments' = {i \in investments : ~StartsWithMock_(i.tx_signature)}]_vars

\* C13: get_portfolio reports the sum of amounts, the number and the number
\* of distinct startups of exactly the investor's Investment rows whose
\* tx_signature does not start with 'mock_', and the groups' total_invested
\* add up to total_invested_usdc.
C13_PortfolioTotals ==
    (resp.op = "get_portfolio" /\ resp.status = 200) =>
        LET mine == {i \in investments : i.investor_id = resp.request
                                         /\ ~StartsWithMock_(i.tx_signature)}
        IN  /\ resp.total_invested_usdc = sum_amounts(mine)
            /\ resp.total_investments = Cardinality(mine)
            /\ resp.startup_count = Cardinality({i.startup_id : i \in mine})
            /\ sum_amounts({[amount |-> g.total_invested, id |-> g.startup_id] :
                               g \in resp.startups}) = resp.total_invested_usdc

\* C17: calculate_match_score weighs skills 0.40, location 0.20, degree 0.20,
\* experience 0.10 and the verified flag 0.10, which sum to 1.0, and its
\* result never decreases when one sub-score in [0,1] or the flag is raised.
C17_WeightsAndMonotonic ==
    resp.op = "calculate_match_score" =>
        LET q == resp.request
            f(s, l, d, e, v) == calculate_match_score(s, l, d, e, v)
        IN  /\ skills_weight + location_weight + degree_weight
                  + experience_weight + verified_weight = 100
            /\ f(One, 0, 0, 0, FALSE) = 400
            /\ f(One, One, 0, 0, FALSE) = 600
            /\ f(One, 0, One, 0, FALSE) = 600
            /\ f(One, 0, 0, One, FALSE) = 500
            /\ f(One, 0, 0, 0, TRUE) = 500
            /\ \A x \in SubScores :
                  /\ x >= q.skills_match =>
                        f(x, q.location_match, q.degree_match, q.experience_match,
                          q.verified) >= resp.result
                  /\ x >= q.location_match =>
                        f(q.skills_match, x, q.degree_match, q.experience_match,
                          q.verified) >= resp.result
                  /\ x >= q.degree_match =>
                        f(q.skills_match, q.location_match, x, q.experience_match,
                          q.verified) >= resp.result
                  /\ x >= q.experience_match =>
                        f(q.skills_match, q.location_match, q.degree_match, x,
                          q.verified) >= resp.result
            /\ f(q.skills_match, q.location_match, q.degree_match,
                 q.experience_match, TRUE) >= resp.result

\* A call whose result lies strictly between the floor and the cap.
C17_Witness ==
    /\ resp.op = "calculate_match_score"
    /\ resp.request.skills_match = One \div 3
    /\ resp.request.verified
    /\ resp.result > 250 /\ resp.result < 950

\* C18: _get_credibility_grade gives 'A+' from 80, 'A' from 70 below 80, 'B'
\* from 60 below 70, 'C' from 50 below 60, 'D' from 40 below 50 and 'F'
\* below 40.
C18_GradeTable ==
    resp.op = "_get_credibility_grade" =>
        LET s == resp.request
            g == resp.result
        IN  /\ g \in {"A+", "A", "B", "C", "D", "F"}
            /\ g = "A+" <=> s >= 8000
            /\ g = "A" <=> (7000 <= s /\ s < 8000)
            /\ g = "B" <=> (6000 <= s /\ s < 7000)
            /\ g = "C" <=> (5000 <= s /\ s < 6000)
            /\ g = "D" <=> (4000 <= s /\ s < 5000)
            /\ g = "F" <=> s < 4000

\* The boundary 70.00 was graded.
C18_Witness ==
    resp.op = "_get_credibility_grade" /\ resp.request = 7000 /\ resp.result = "A"

\* The required skills the user has, letters compared without regard to case.
C20_Has(required, user) ==
    {i \in 1..Len(required) :
        \E j \in 1..Len(user) :
            /\ Len(user[j]) = Len(required[i])
            /\ \A k \in 1..Len(user[j]) :
                  \/ user[j][k] = required[i][k]
                  \/ \E n \in 1..26 :
                        {user[j][k], required[i][k]} = {UpperChars[n], LowerChars[n]}}

\* C20: _calculate_skills_match returns the number of required skills the
\* user has, compared case-insensitively, over the number of required
\* skills; 1.0 when nothing is required, 0.0 when the user has no skills;
\* always within [0,1].
C20_SkillsMatchFraction ==
    resp.op = "_calculate_skills_match" =>
        LET required == resp.request.required_skills
            user == resp.request.user_skills
            r == resp.result
        IN  /\ r.den > 0 /\ 0 <= r.num /\ r.num <= r.den
            /\ Len(required) = 0 => r.num = r.den
            /\ (Len(required) > 0 /\ Len(user) = 0) => r.num = 0
            /\ Len(required) > 0 =>
                  r.num * Len(required) = Cardinality(C20_Has(required, user)) * r.den

\* One of two required skills is matched through a difference in case.
C20_Witness ==
    /\ resp.op = "_calculate_skills_match"
    /\ resp.request.required_skills = <<Python, SQL>>
    /\ resp.request.user_skills = <<python, React>>
    /\ resp.result = [num |-> 1, den |-> 2]

\* A get_user that follows a successful register_user and asks for its id.
C19_Following ==
    /\ resp.op = "register_user" /\ resp.status = 201
    /\ resp'.op = "get_user" /\ resp'.request = resp.user.id

\* The address with the part after "@" in lower case.
C19_Normalised(email) ==
    LET at == CHOOSE i \in 1..Len(email) : email[i] = "@"
    IN  SubSeq(email, 1, at) \o lower(SubSeq(email, at + 1, Len(email)))

\* C19 as stated: a successful register_user answers 201 with a generated
\* integer id and the submitted email and full name, and a following
\* get_user with that id answers with the same id and email.
C19_RegisterGetRoundTrip ==
    /\ []((resp.op = "register_user" /\ resp.status = 201) =>
             /\ resp.user.id \in Nat \ {0}
             /\ resp.user.email = resp.request.email
             /\ resp.user.full_name = resp.request.full_name)
    /\ [][C19_Following =>
             /\ resp'.status = 200
             /\ resp'.body.id = resp.user.id
             /\ resp'.body.email = resp.user.email]_vars

\* C19, amended: a successful register_user answers 201 with a generated
\* integer id, the submitted full name and the submitted email with its
\* domain in lower case, and a following get_user with that id answers with
\* the same id and email.
C19_RoundTripNormalised ==
    /\ []((resp.op = "register_user" /\ resp.status = 201) =>
             /\ resp.user.id \in Nat \ {0}
             /\ resp.user.email = C19_Normalised(resp.request.email)
             /\ resp.user.full_name = resp.request.full_name)
    /\ [][C19_Following =>
             /\ resp'.status = 200
             /\ resp'.body.id = resp.user.id
             /\ resp'.body.email = resp.user.email]_vars

\* The second registered user was fetched by id.
C19_Witness ==
    /\ resp.op = "get_user" /\ resp.status = 200
    /\ resp.request = 2
    /\ resp.body.email = <<"A","@","x">>
    /\ Cardinality(users) = 2


\* C16: seed_database is idempotent: a run that directly follows a run in
\* which the bridge gave the same results leaves the users, startups and jobs
\* tables as the first run left them.
C16_SeedIdempotent ==
    [][\A outcomes \in [1..2 -> SeedOutcomes] :
          (/\ resp.op = "seed_database" /\ resp.request = outcomes
           /\ SeedDatabase(outcomes))
          => (users' = users /\ startups' = startups /\ jobs' = jobs)]_vars


SamePair(x, y) == x.job_id = y.job_id /\ x.user_id = y.user_id

\* C14: persisting matches is idempotent: after any sequence of
\* match_user_to_jobs calls there is at most one JobMatch row for a job and a
\* user, and a call keeps every recorded row and adds no row for a pair that
\* is already recorded.
C14_PersistIdempotent ==
    /\ [](\A x, y \in job_matches : SamePair(x, y) => x = y)
    /\ [][/\ job_matches \subseteq job_matches'
          /\ \A x \in job_matches' \ job_matches :
                ~\E y \in job_matches : SamePair(x, y)]_vars

\* A call returned two matches of which the better one was recorded later than
\* the other: the other one's pair was already recorded when the call ran.
C14_Witness ==
    /\ resp.op = "match_user_to_jobs"
    /\ \E i, j \in 1..resp.count :
          /\ i < j
          /\ \E x, y \in job_matches :
                /\ x.user_id = resp.request.user_id /\ y.user_id = x.user_id
                /\ x.job_id = resp.matches[i].job_id
                /\ y.job_id = resp.matches[j].job_id
                /\ x.id > y.id

\* The score the user of a request gets for a job.
C15_Score(user_id, job) == job_match(job, user_profile(user_id)).match_score

\* C15: match_user_to_jobs returns at most limit matches (none for a limit
\* below zero), each with a score strictly above 0.1, in non-increasing order
\* of score; no candidate job that was left out scores higher than a returned
\* one, and every returned job is joined to its startup.
C15_TopMatches ==
    resp.op = "match_user_to_jobs" =>
        LET q == resp.request
            m == resp.matches
            returned == {m[i].job_id : i \in 1..Len(m)}
        IN  /\ Len(m) <= Max({q.limit, 0})
            /\ \A i \in 1..Len(m) : m[i].match_score > match_threshold
            /\ \A i, j \in 1..Len(m) : i < j => m[i].match_score >= m[j].match_score
            /\ \A job \in candidate_jobs(q.category, q.location) :
                  job.id \notin returned =>
                      \A i \in 1..Len(m) :
                          C15_Score(q.user_id, job) <= m[i].match_score
            /\ \A i \in 1..Len(m) :
                  \E job \in jobs, s \in startups :
                      job.id = m[i].job_id /\ s.id = job.startup_id


\* C21: _calculate_experience_match(required, user) is 1.0 when required is 0
\* or user >= required, and user / required otherwise, for all non-negative
\* integers.
C21_ExperienceMatch ==
    resp.op = "_calculate_experience_match" =>
        LET required == resp.request.min_experience
            user == resp.request.user_experience
            r == resp.result
        IN  /\ r.den > 0
            /\ (required = 0 \/ user >= required) => r.num = r.den
            /\ (required > 0 /\ user < required) => r.num * required = user * r.den

\* The example of the test: 5 years required, 2 years held, 0.4.
C21_Witness ==
    /\ resp.op = "_calculate_experience_match"
    /\ resp.request = [min_experience |-> 5, user_experience |-> 2]
    /\ resp.result.num * 5 = 2 * resp.result.den

\* The letters and digits without 0, O, I and l.
C22_Base58 ==
    ({UpperChars[i] : i \in 1..26} \cup {LowerChars[i] : i \in 1..26}
         \cup {DigitChar(i) : i \in 0..9}) \ {"0", "O", "I", "l"}

\* C22: validate_solana_address accepts a string exactly when its length is
\* between 32 and 44 inclusive and every character is in the base58
\* alphabet.
C22_AcceptsExactlyBase58 ==
    resp.op = "validate_solana_address" =>
        LET address == resp.request
        IN  resp.result <=> /\ Len(address) >= 32 /\ Len(address) <= 44
                            /\ \A i \in 1..Len(address) : address[i] \in C22_Base58

\* An address of the largest length is rejected for ending in the letter O.
C22_Witness ==
    /\ resp.op = "validate_solana_address"
    /\ Len(resp.request) = 44 /\ resp.request[44] = "O"
    /\ resp.result = FALSE


\* C23: two concurrent send_usdc_investment requests for one unregistered
\* startup can both invoke the registration bridge before either commits.
\* A request that found the startup unregistered calls the bridge whatever the
\* other request has done since, and the registrations of two requests that
\* wait to commit are two different on-chain registrations for one row.
C23_BothRegister ==
    /\ [][\A r \in Requests :
             (req[r].pc = "register" /\ req'[r].pc # "register")
                 => bridge'.register_calls = bridge.register_calls + 1]_vars
    /\ [](\A r1, r2 \in Requests :
             (/\ r1 # r2
              /\ req[r1].pc = "register_commit" /\ req[r2].pc = "register_commit")
                 => /\ req[r1].reg_result # req[r2].reg_result
                    /\ {req[r1].reg_result, req[r2].reg_result} \subseteq bridge.registered)

\* Both requests hold a registration of the same row and neither has committed.
C23_Witness ==
    /\ req[1].pc = "register_commit" /\ req[2].pc = "register_commit"
    /\ req[1].startup_pk = req[2].startup_pk
    /\ Cardinality(bridge.registered) = 2
    /\ \A s \in startups : s.id = req[1].startup_pk => s.transaction_signature = None

\* C24: two concurrent send_usdc_investment requests race on the credibility
\* read-modify-write and the last writer wins: the commit stores the score
\* the request computed when it read, not one computed from the rows as they
\* are at the commit; the Investment rows of both requests stay.
C24_LastWriterWins ==
    /\ [][\A r \in Requests :
             (req[r].pc = "credibility_commit" /\ req'[r].pc = "idle")
                 => /\ investments' = investments
                    /\ \A s \in startups' :
                          s.id = req[r].startup_pk =>
                              \/ s.credibility_score = req[r].score
                              \/ /\ req[r].score = req[r].loaded_score
                                 /\ s \in startups]_vars
    /\ [](\A r \in Requests :
             req[r].pc \in {"credibility", "credibility_commit"} =>
                 \E i \in investments :
                     /\ i.startup_id = req[r].startup_pk
                     /\ i.tx_signature = req[r].inv_result.transaction_signature)

\* Both requests are done, both Investment rows are there, and the stored
\* score is the one computed from a single investment.
C24_Witness ==
    /\ Idle
    /\ Cardinality(investments) = 2
    /\ \E s \in startups, i \in investments :
          /\ \A j \in investments : j.startup_id = s.id
          /\ s.credibility_score # calculate_startup_credibility(s.id)
          /\ s.credibility_score =
                 round2(1000 * (Min(40, s.employees_verified * 8) + 10)
                        + investment_score(i.amount))


\* C25: in every reachable state each startup's stored credibility_score
\* lies between 0 and 100 inclusive (scores are stored in hundredths).
C25_ScoreInRange ==
    \A s \in startups : s.credibility_score \in 0..10000


\* C26: calculate_match_score returns 0 or a value from 0.25 to 0.95, so
\* every match returned or recorded by match_user_to_jobs has a score from
\* 0.25 to 0.95, and a job passes the 0.1 threshold exactly when its score is
\* not 0.  Scores are in thousandths; the range of the function, which reads
\* no state, is examined before the first call.
C26_ScoreRange ==
    /\ resp.op = "none" =>
          \A s \in SubScores, l \in SubScores, d \in SubScores, e \in SubScores,
             v \in BOOLEAN :
             calculate_match_score(s, l, d, e, v) \in {0} \cup 250..950
    /\ \A m \in job_matches : m.score \in 250..950
    /\ resp.op = "match_user_to_jobs" =>
          \A i \in 1..Len(resp.matches) : resp.matches[i].match_score \in 250..950
    /\ \A u \in users, j \in candidate_jobs(None, None) :
          LET score == C15_Score(u.id, j)
          IN  /\ score \in {0} \cup 250..950
              /\ (score > match_threshold) <=> (score # 0)

\* A call left out a job whose weighted sum lies between the threshold and
\* the floor, and returned and recorded another one.
C26_Witness ==
    /\ resp.op = "match_user_to_jobs"
    /\ resp.request.category = None /\ resp.request.location = None
    /\ resp.count > 0
    /\ \E m \in job_matches : m.job_id = resp.matches[1].job_id
    /\ \E j \in candidate_jobs(None, None) :
          LET m == job_match(j, user_profile(resp.request.user_id))
          IN  /\ m.match_score = 0
              /\ calculate_match_score_unfloored(m.skills_match, One \div 2,
                                                 m.degree_match, m.experience_match,
                                                 FALSE) > match_threshold


\* C30: match_user_to_jobs never modifies or deletes a JobMatch row: every
\* row stays as it is, and the row of a pair that a call returns keeps its
\* stored score even when the score the call computed and returned differs.
C30_RowsKept ==
    [][/\ \A x \in job_matches : x \in job_matches'
       /\ resp'.op = "match_user_to_jobs" =>
             \A i \in 1..Len(resp'.matches), x \in job_matches :
                 (x.user_id = resp'.request.user_id
                  /\ x.job_id = resp'.matches[i].job_id) =>
                     \A y \in job_matches' :
                         SamePair(x, y) => y.score = x.score]_vars

\* A call returned, for a recorded pair, a score other than the stored one.
C30_Witness ==
    /\ resp.op = "match_user_to_jobs"
    /\ \E i \in 1..Len(resp.matches), x \in job_matches :
          /\ x.user_id = resp.request.user_id
          /\ x.job_id = resp.matches[i].job_id
          /\ x.score # resp.matches[i].match_score


\* No Investment, Job, JobMatch or JobApplication row names a user, startup
\* or job that is not there.
C27_References ==
    /\ \A i \in investments :
          /\ \E u \in users : u.id = i.investor_id
          /\ \E s \in startups : s.id = i.startup_id
    /\ \A j \in jobs : j.startup_id = NULL \/ \E s \in startups : s.id = j.startup_id
    /\ \A m \in job_matches :
          /\ \E u \in users : u.id = m.user_id
          /\ \E j \in jobs : j.id = m.job_id
    /\ \A a \in job_applications :
          /\ \E u \in users : u.id = a.user_id
          /\ \E j \in jobs : j.id = a.job_id

\* C27: after delete_user succeeds no remaining Investment, Job, JobMatch or
\* JobApplication row references a user, startup or job that no longer
\* exists; a founder into whose startup another investor has invested is not
\* deleted at all, so that investment never outlives the startup.
C27_ReferentialIntegrity ==
    /\ []((resp.op = "delete_user" /\ resp.status = 200) => C27_References)
    /\ [][\A uid \in 1..(SeedUsers + 1) :
             (/\ DeleteUser(uid, 0)
              /\ \E i \in investments, s \in startups :
                    /\ s.founder_id = uid /\ i.startup_id = s.id
                    /\ i.investor_id # uid)
                 => resp'.status = 500 /\ tables' = tables]_vars

\* A founder who had invested in their own startup was deleted with the
\* startup, its job and the investment, and the other user's rows remain.
C27_Witness ==
    /\ resp.op = "delete_user"
    /\ resp.status = 200
    /\ resp.request = 1
    /\ resp.deleted.startups = 1
    /\ resp.deleted.investments = 1
    /\ startups = {} /\ investments = {} /\ jobs = {}
    /\ \E u \in users : u.id = 2
    /\ \E c \in cvs : c.user_id = 2


C29_ResponseIdFindsStartup ==
    [][(/\ resp.op = "send_usdc_investment" /\ resp.status = 200
        /\ resp'.op = "get_startup_investments"
        /\ resp'.request = resp.request.startup_id)
          => /\ resp'.status = 200
             /\ \E k \in 1..resp'.count :
                   resp'.investments[k].tx_signature = resp.transaction_signature]_vars

====
